---- MODULE Spec2Model ----
(***************************************************************************)
(* A model of the document-extraction server of msnejdar/tezba             *)
(* (claude-flow/intelligent-searcher/server): the format dispatcher        *)
(* parseDocument, the standard extractors, the .pages extractor            *)
(* convertPagesToText, its cleanup pass cleanExtractedText and the answer  *)
(* of the upload route.                                                    *)
(*                                                                         *)
(* A text is a sequence of characters and a character is a string naming   *)
(* one UTF-16 code unit.  ASCII characters name themselves; the others are *)
(* written in ASCII: "a1" is a-acute, "c2" is c-caron, "u3" is u-ring,     *)
(* "NBSP" is U+00A0, "QUOT", "APOS" and "TICK" are the double quote, the     *)
(* single quote and the backquote, "^A" is the control character U+0001    *)
(* and "FFFD" is the replacement character U+FFFD.                         *)
(***************************************************************************)
EXTENDS Integers, Sequences, FiniteSets, TLC

VARIABLES
    npc,        \* normalisation run: "in" before the call, "once", "twice"
    nin,        \* normalisation run: the string handed to the final cleanup
    nout,       \* normalisation run: what the first call returned
    nout2,      \* normalisation run: what the second call, on nout, returned
    cpc,        \* cleanup run: "in" before cleanExtractedText is called, "done" after
    cin,        \* cleanup run: the candidate text
    cout,       \* cleanup run: the text cleanExtractedText returned
    cpath,      \* cleanup run: the return statement it took
    reqName,    \* request: the name of the uploaded file
    reqMime,    \* request: its MIME type
    reqBytes,   \* request: its bytes
    dpc,        \* the upload: "start", "called" (the selected extractor ended), "returned", "responded"
    lib,        \* <<what the decoding library answered to the selected extractor>>
    detection,  \* <<what jschardet.detect answered>>, once the bytes were decoded as text
    first,      \* how the selected extractor ended: its result, or threw
    extracted,  \* convertPagesToText: the text it handed to cleanExtractedText
    strategy,   \* convertPagesToText: the step that text came from
    result,     \* what parseDocument returned
    calls,      \* the extractors called, in order
    response,   \* what POST /api/upload answered: [status, error]
    fpc,        \* function run: "in" before the call, "out" after
    fname,      \* function run: the function called
    farg,       \* function run: its buffer and what the libraries did with it
    fret,       \* function run: how the call ended
    pair,       \* two calls of parseDocument in flight: for each its arguments and locals
    spc,        \* search: where searchInDocument is: "create", "pause", "done"
    chunks,     \* search: the lengths of the chunks of the document
    chunk,      \* search: the index i of the for loop, from 0
    positionOffset, \* search: the offset added to the positions of the results
    attempts,   \* search: for each chunk, how many times messages.create was called for it
    outcomes,   \* search: for each chunk, how its last call of messages.create ended
    allResults, \* search: the results added so far, in order
    delays,     \* search: the timeouts awaited, in ms, in order
    sortedResults, \* search: <<the list searchInDocument returned>>
    session,    \* routes: the session stored for the client: uploadedFile, searchHistory
    handling,   \* routes: for each handler, the request it is awaiting in, with its req.session
    clock,      \* routes: the time, which every search answered advances
    cleared,    \* routes: the time at which the session was last destroyed
    overlaps,   \* routes: how many requests arrived while another was handled
    answer      \* routes: the last response sent: [route, status]

normVars == <<npc, nin, nout, nout2>>

cleanVars == <<cpc, cin, cout, cpath>>

reqVars == <<reqName, reqMime, reqBytes>>

docVars == <<dpc, lib, detection, first, extracted, strategy, result, calls, response>>

funVars == <<fpc, fname, farg, fret>>

pairVars == <<pair>>

searchVars == <<spc, chunks, chunk, positionOffset, attempts, outcomes, allResults, delays,
                sortedResults>>

sessVars == <<session, handling, clock, cleared, overlaps, answer>>

vars == <<normVars, cleanVars, reqVars, docVars, funVars, pairVars, searchVars, sessVars>>

\* a run that is not taking place
NormIdle == npc = "idle" /\ nin = <<>> /\ nout = <<>> /\ nout2 = <<>>

CleanIdle == cpc = "idle" /\ cin = <<>> /\ cout = <<>> /\ cpath = "none"

FunIdle == fpc = "idle" /\ fname = "none" /\ farg = <<>> /\ fret = <<>>

PairIdle == pair = <<>>

SearchIdle ==
    /\ spc = "idle" /\ chunks = <<>> /\ chunk = 0 /\ positionOffset = 0 /\ attempts = <<>>
    /\ outcomes = <<>> /\ allResults = <<>> /\ delays = <<>> /\ sortedResults = <<>>

\* req.session of a request that came with no session: {}
NewSession == [uploadedFile |-> <<>>, searchHistory |-> <<>>]

NoAnswer == [route |-> "none", status |-> 0]

SessIdle ==
    /\ session = NewSession /\ handling = <<>> /\ clock = 0 /\ cleared = 0
    /\ overlaps = 0 /\ answer = NoAnswer

(***************************************************************************)
(* Character classes of the regular expressions in the source.             *)
(***************************************************************************)

\* \s of a JavaScript regular expression (the members a text here can hold)
WhiteSpace == {" ", "\t", "\n", "\r", "\f", "NBSP"}

\* [,.;:!?] of the final cleanup
Punct == {",", ".", ";", ":", "!", "?"}

(***************************************************************************)
(* Regular expressions.  An expression is a sequence of items; an item is  *)
(* a character class with a quantifier, an alternation of expressions or a *)
(* zero-width assertion; a run of literal characters is one item, the list *)
(* of the sets each of its characters may come from.  Matching is          *)
(* JavaScript's: leftmost, the items                                       *)
(* tried in order with backtracking, a greedy quantifier longest first, a  *)
(* lazy one shortest first.  max = -1 is no upper limit.                   *)
(***************************************************************************)

Rep(S, lo, hi) == [k |-> "c", s |-> S, neg |-> FALSE, min |-> lo, max |-> hi, lazy |-> FALSE]

NotRep(S, lo, hi) == [k |-> "c", s |-> S, neg |-> TRUE, min |-> lo, max |-> hi, lazy |-> FALSE]

Lazy(it) == [it EXCEPT !.lazy = TRUE]

One(S) == Rep(S, 1, 1)

Alt(res) == [k |-> "alt", alts |-> res]

\* a run of literal characters: cs[x] is what the x-th character may be
Word(cs) == [k |-> "w", cs |-> cs]

\* TRUE when the literal run cs stands at position i of s
WordAt(cs, s, i) == i + Len(cs) - 1 <= Len(s) /\ \A x \in 1..Len(cs) : s[i + x - 1] \in cs[x]

Hit(it, c) == IF it.neg THEN c \notin it.s ELSE c \in it.s

\* the least number of a set of numbers
Least(S) == CHOOSE m \in S : \A y \in S : m <= y

\* the first position from i on that holds no character of the class item
RunStop(it, s, i) == Least({j \in i..(Len(s) + 1) : j = Len(s) + 1 \/ ~Hit(it, s[j])})

\* r characters, or max of them when the quantifier has an upper limit below r
Capped(r, max) == IF max >= 0 /\ r > max THEN max ELSE r

\* how many characters from position i on the class item can take
RunLen(it, s, i) == Capped(RunStop(it, s, i) - i, it.max)

\* F of the value s: as the receiver of a method call, s is evaluated before
\* the method runs
Of(s, F(_)) == CHOOSE r \in {F(v) : v \in {s}} : TRUE

RECURSIVE FlatRange(_, _, _)
\* ss[lo] \o ... \o ss[hi], by halves
FlatRange(ss, lo, hi) ==
    IF lo > hi THEN <<>>
    ELSE IF lo = hi THEN ss[lo]
    ELSE FlatRange(ss, lo, (lo + hi) \div 2) \o FlatRange(ss, (lo + hi) \div 2 + 1, hi)

\* the sequences of ss joined into one
Flat(ss) == Of(ss, LAMBDA v : FlatRange(v, 1, Len(v)))

\* [A-Za-z0-9_], the word characters of \b
WordChar ==
    {"a","b","c","d","e","f","g","h","i","j","k","l","m","n","o","p","q","r","s","t","u","v","w","x","y","z",
     "A","B","C","D","E","F","G","H","I","J","K","L","M","N","O","P","Q","R","S","T","U","V","W","X","Y","Z",
     "0","1","2","3","4","5","6","7","8","9","_"}

IsWordAt(s, i) == i >= 1 /\ i <= Len(s) /\ s[i] \in WordChar

RECURSIVE Cands(_, _, _), AllEnds(_, _, _, _), Match(_, _, _, _), FirstOf(_, _, _, _, _)

\* the positions after a class item that can take r characters from i on
RunEnds(it, i, r) ==
    IF r < it.min THEN <<>>
    ELSE IF it.lazy THEN [x \in 1..(r - it.min + 1) |-> i + it.min + x - 1]
    ELSE [x \in 1..(r - it.min + 1) |-> i + r - x + 1]

\* the positions after item `it` matched at i, in the order backtracking tries them
Cands(it, s, i) ==
    CASE it.k = "c" -> RunEnds(it, i, RunLen(it, s, i))
      [] it.k = "w" -> IF WordAt(it.cs, s, i) THEN <<i + Len(it.cs)>> ELSE <<>>
      [] it.k = "alt" -> Flat([a \in 1..Len(it.alts) |-> AllEnds(it.alts[a], s, i, 1)])
      [] it.k = "bol" -> IF i = 1 THEN <<i>> ELSE <<>>
      [] it.k = "bolm" -> IF i = 1 \/ s[i - 1] \in {"\n", "\r"} THEN <<i>> ELSE <<>>
      [] it.k = "eol" -> IF i = Len(s) + 1 THEN <<i>> ELSE <<>>
      [] it.k = "wb" -> IF IsWordAt(s, i - 1) # IsWordAt(s, i) THEN <<i>> ELSE <<>>

\* every position where items k.. of re can end when item k - 1 ended at one of cs
EndsAfter(re, s, k, cs) == Flat([x \in 1..Len(cs) |-> AllEnds(re, s, cs[x], k)])

\* every position where items k.. of re can end when started at i
AllEnds(re, s, i, k) ==
    IF k > Len(re) THEN <<i>> ELSE EndsAfter(re, s, k + 1, Cands(re[k], s, i))

\* the first match of items k.. of re at position i: <<i, end of item k, ...>>,
\* or <<>> when there is none
Match(re, s, i, k) ==
    IF k > Len(re) THEN <<i>> ELSE FirstOf(re, s, i, k, Cands(re[k], s, i))

\* the attempts that gave a match, in the order they were made
Matched(ms) == SelectSeq(ms, LAMBDA m : m # <<>>)

\* the first of the matches ms of the later items, with the position i where
\* this item started; <<>> when there is none
FirstAfter(i, ms) == IF ms = <<>> THEN <<>> ELSE <<i>> \o ms[1]

\* item k of re started at i and can end at the positions cs, tried in order
FirstOf(re, s, i, k, cs) ==
    FirstAfter(i, Matched([x \in 1..Len(cs) |-> Match(re, s, cs[x], k + 1)]))

\* the first of the matches ms; <<>> when there is none
First(ms) == IF ms = <<>> THEN <<>> ELSE ms[1]

\* the leftmost match starting at or after position from
Search(re, s, from) ==
    First(Matched([x \in 1..(Len(s) + 2 - from) |-> Match(re, s, from + x - 1, 1)]))

MStart(m) == m[1]

MEnd(m) == m[Len(m)]

RECURSIVE FindAll(_, _, _), AndLater(_, _, _)
\* the match m and the matches after it; an empty match moves the search on by one
AndLater(re, s, m) ==
    IF m = <<>> THEN <<>>
    ELSE <<m>> \o FindAll(re, s, IF MEnd(m) > MStart(m) THEN MEnd(m) ELSE MEnd(m) + 1)

\* the matches of a /g expression from position from on, left to right
FindAll(re, s, from) == AndLater(re, s, Search(re, s, from))

\* the texts of the matches ms
MatchTexts(s, ms) == [x \in 1..Len(ms) |-> SubSeq(s, MStart(ms[x]), MEnd(ms[x]) - 1)]

\* String.prototype.match with a /g expression: the matched texts (<<>> for null)
Matches(re, s) == Of(s, LAMBDA v : MatchTexts(v, FindAll(re, v, 1)))

\* RegExp.prototype.test / String.prototype.match without /g, as a truth value
Test(re, s) == Search(re, s, 1) # <<>>

\* a replacement: literal pieces and groups; the group <<a, b>> is what items a..b matched
Lit(t) == [lit |-> TRUE, t |-> t]

Grp(a, b) == [lit |-> FALSE, a |-> a, b |-> b]

Expand(tmpl, s, m) ==
    Flat([x \in 1..Len(tmpl) |->
            IF tmpl[x].lit THEN tmpl[x].t ELSE SubSeq(s, m[tmpl[x].a], m[tmpl[x].b + 1] - 1)])

\* where the text between match x - 1 and match x of ms starts
After(ms, x) == IF x = 1 THEN 1 ELSE MEnd(ms[x - 1])

\* where the text between match x - 1 and match x of ms ends; past the last
\* match it is the end of s
Before(s, ms, x) == IF x > Len(ms) THEN Len(s) ELSE MStart(ms[x]) - 1

\* s with the matches ms replaced: the texts between them, each followed by
\* what the replacement makes of the match after it
Replaced(s, tmpl, ms) ==
    Flat([x \in 1..(Len(ms) + 1) |->
            SubSeq(s, After(ms, x), Before(s, ms, x))
                \o (IF x > Len(ms) THEN <<>> ELSE Expand(tmpl, s, ms[x]))])

ReplaceFrom(s, tmpl, ms) == Of(ms, LAMBDA v : Replaced(s, tmpl, v))

\* String.prototype.replace with a /g expression
ReplaceAll(re, s, tmpl) == Of(s, LAMBDA v : ReplaceFrom(v, tmpl, FindAll(re, v, 1)))

\* the match m as a list of matches
Found(m) == IF m = <<>> THEN <<>> ELSE <<m>>

\* String.prototype.replace with an expression without /g: the first match only
ReplaceFirst(re, s, tmpl) == Of(s, LAMBDA v : ReplaceFrom(v, tmpl, Found(Search(re, v, 1))))

\* the texts between the matches ms of s
SplitAt(s, ms) == [x \in 1..(Len(ms) + 1) |-> SubSeq(s, After(ms, x), Before(s, ms, x))]

SplitFrom(s, ms) == Of(ms, LAMBDA v : SplitAt(s, v))

\* String.prototype.split on an expression that matches no empty string
Split(re, s) == Of(s, LAMBDA v : SplitFrom(v, FindAll(re, v, 1)))

\* the elements of ts with sep after each but the last
Joined(ts, sep) == Flat([x \in 1..Len(ts) |-> IF x < Len(ts) THEN ts[x] \o sep ELSE ts[x]])

\* Array.prototype.join
Join(ts, sep) == Of(ts, LAMBDA v : Joined(v, sep))

\* the greatest number of a set of numbers
Greatest(S) == CHOOSE m \in S : \A y \in S : m >= y

\* s from its first character that is no whitespace on
TrimmedStart(s) == SubSeq(s, Least({i \in 1..(Len(s) + 1) : i > Len(s) \/ s[i] \notin WhiteSpace}), Len(s))

\* s up to its last character that is no whitespace
TrimmedEnd(s) == SubSeq(s, 1, Greatest({i \in 0..Len(s) : i = 0 \/ s[i] \notin WhiteSpace}))

TrimStart(s) == Of(s, TrimmedStart)

TrimEnd(s) == Of(s, TrimmedEnd)

\* String.prototype.trim
Trim(s) == TrimStart(TrimEnd(s))

RECURSIVE Strings(_, _)
\* the texts of at most n characters over alphabet A
Strings(A, n) ==
    IF n = 0 THEN {<<>>}
    ELSE LET shorter == Strings(A, n - 1)
         IN  shorter \cup {Append(t, c) : t \in {u \in shorter : Len(u) = n - 1}, c \in A}

(***************************************************************************)
(* The character classes and word lists of cleanExtractedText.             *)
(***************************************************************************)

AsciiLower ==
    {"a","b","c","d","e","f","g","h","i","j","k","l","m","n","o","p","q","r","s","t","u","v","w","x","y","z"}

AsciiUpper ==
    {"A","B","C","D","E","F","G","H","I","J","K","L","M","N","O","P","Q","R","S","T","U","V","W","X","Y","Z"}

Digit == {"0","1","2","3","4","5","6","7","8","9"}

\* the lower-case half of [a-z...] in the Czech letter class, in the order of CaseUpper
CaseLower ==
    <<"a","b","c","d","e","f","g","h","i","j","k","l","m","n","o","p","q","r","s","t","u","v","w","x","y","z",
      "a1","c2","d2","e1","e2","i1","n2","o1","r2","s2","t2","u1","u3","y1","z2">>

CaseUpper ==
    <<"A","B","C","D","E","F","G","H","I","J","K","L","M","N","O","P","Q","R","S","T","U","V","W","X","Y","Z",
      "A1","C2","D2","E1","E2","I1","N2","O1","R2","S2","T2","U1","U3","Y1","Z2">>

\* [a-z...A-Z...] with the Czech letters: the class of the word test (671) and of the last resort (741)
CzechLetter == {CaseLower[i] : i \in 1..Len(CaseLower)} \cup {CaseUpper[i] : i \in 1..Len(CaseUpper)}

\* the characters an /i expression takes for the literal character c
BothCases(c) ==
    {c} \cup {CaseUpper[i] : i \in {j \in 1..Len(CaseLower) : CaseLower[j] = c}}
        \cup {CaseLower[i] : i \in {j \in 1..Len(CaseUpper) : CaseUpper[j] = c}}

\* the items of an /i expression for the literal word w
WordI(w) == <<Word([x \in 1..Len(w) |-> BothCases(w[x])])>>

\* (w1|w2|...) of an /i expression
AnyWordI(ws) == Alt([x \in 1..Len(ws) |-> WordI(ws[x])])

\* [\x20-\x7E\u00A0-\u024F\u1E00-\u1EFF]: what the cleanup keeps as readable
Printable ==
    AsciiLower \cup AsciiUpper \cup Digit \cup CzechLetter \cup
    {" ","!","QUOT","#","$","%","&","APOS","(",")","*","+",",","-",".","/",":",";","<","=",">","?","@",
     "[","\\","]","^","_","TICK","{","|","}","~","NBSP"}

\* the metadata words of the word test (660)
SkipWords ==
    <<<<"i","w","a">>,
      <<"I","n","d","e","x">>,
      <<"T","a","b","l","e","s">>,
      <<"D","o","c","u","m","e","n","t">>,
      <<"M","e","t","a","d","a","t","a">>,
      <<"P","r","e","v","i","e","w">>,
      <<"P","N","G">>,
      <<"X","M","L">>,
      <<"J","P","E","G">>,
      <<"R","G","B">>,
      <<"A","p","p","l","e">>,
      <<"O","f","f","i","c","e">>,
      <<"T","h","e","m","e">>,
      <<"H","e","l","v","e","t","i","c","a">>,
      <<"C","a","m","b","r","i","a">>,
      <<"A","r","i","a","l">>,
      <<"D","a","t","a">>,
      <<"P","r","e","s","e","t","I","m","a","g","e","F","i","l","l">>,
      <<"j","p","g">>,
      <<"J","F","I","F">>,
      <<"E","x","i","f">>,
      <<"P","h","o","t","o","s","h","o","p">>,
      <<"B","I","M">>,
      <<"C","D","E","F","G","H","I","J","S","T","U","V","W","X","Y","Z","c","d","e","f","g","h","i","j","s","t","u","v","w","x","y","z">>>>

\* the words the run cleanup (725) removes besides SkipWords
MoreMetadataWords ==
    <<<<"b","u","l","l","e","t">>,
      <<"g","b","u","t","t","o","n">>,
      <<"g","r","a","y">>,
      <<"p","H","Y","s">>,
      <<"p","r","o","f","i","l","e">>,
      <<"K","o","R">>,
      <<"g","r","e","g","o","r","i","a","n">>,
      <<"l","a","t","n">>,
      <<"i","s","o">>,
      <<"C","Z","K">>,
      <<"E","U","R">>,
      <<"U","S","D">>>>

\* the metadata words of the last resort (745)
LastResortWords ==
    <<<<"i","w","a">>,
      <<"I","n","d","e","x">>,
      <<"T","a","b","l","e","s">>,
      <<"D","o","c","u","m","e","n","t">>,
      <<"M","e","t","a","d","a","t","a">>,
      <<"P","r","e","v","i","e","w">>,
      <<"P","N","G">>,
      <<"X","M","L">>,
      <<"J","P","E","G">>,
      <<"R","G","B">>,
      <<"A","p","p","l","e">>,
      <<"O","f","f","i","c","e">>,
      <<"T","h","e","m","e">>,
      <<"H","e","l","v","e","t","i","c","a">>,
      <<"C","a","m","b","r","i","a">>,
      <<"A","r","i","a","l">>,
      <<"D","e","f","a","u","l","t">>,
      <<"F","i","l","l">>,
      <<"C","e","n","t","e","r">>,
      <<"S","t","y","l","e">>>>

\* (?:pokyn|instrukce|...) of the first pattern of 696
KeyWords1 ==
    <<<<"p","o","k","y","n">>,
      <<"i","n","s","t","r","u","k","c","e">>,
      <<"p","r","a","v","i","d","l","a">>,
      <<"p","o","d","m","i1","n","k","y">>,
      <<"u1","v","e2","r">>,
      <<"b","a","n","k","a">>,
      <<"o","d","h","a","d","c","e">>>>

\* (?:Interni|Pokyn|...) of 697
KeyWords2 ==
    <<<<"I","n","t","e","r","n","i1">>,
      <<"P","o","k","y","n">>,
      <<"P","r","a","v","i","d","l","a">>,
      <<"P","o","d","m","i1","n","k","y">>,
      <<"U1","c2","i","n","n","o","s","t">>>>

\* \s+
Sp == Rep(WhiteSpace, 1, -1)

\* [^{}]*?
Gap == Lazy(NotRep({"{", "}"}, 0, -1))

\* czechTextPatterns (614-625), all /gi; the Czech words are spelled in the ASCII names of the module
CzechTextPatterns ==
    <<
      \* pattern 1 of the list
      WordI(<<"C2","e","s","k","a1">>)
        \o <<Sp>>
        \o WordI(<<"s","p","o","r2","i","t","e","l","n","a">>)
        \o <<Gap>>
        \o <<Rep(Digit, 4, 4)>>,
      \* pattern 2 of the list
      WordI(<<"I","n","t","e","r","n","i1">>)
        \o <<Sp>>
        \o WordI(<<"p","o","k","y","n">>)
        \o <<Gap>>
        \o WordI(<<"o","d","h","a","d","c","e">>)
        \o <<Gap>>
        \o <<Rep(Digit, 4, 4)>>,
      \* pattern 3 of the list
      WordI(<<"U1","c2","i","n","n","o","s","t">>)
        \o <<Sp>>
        \o WordI(<<"p","r","a","v","i","d","e","l">>)
        \o <<Gap>>
        \o WordI(<<"v","y","d","a1","n","i1">>)
        \o <<Gap>>
        \o WordI(<<"p","o","k","y","n","u">>),
      \* pattern 4 of the list
      WordI(<<"m","a","n","a","z2","e","r">>)
        \o <<Sp>>
        \o WordI(<<"u1","t","v","a","r","u">>)
        \o <<Gap>>
        \o WordI(<<"S","p","r","a1","v","a">>)
        \o <<Gap>>
        \o WordI(<<"z","a","j","i","s2","t","e2","n","i1">>),
      \* pattern 5 of the list
      WordI(<<"F","I","N","A","N","C","O","V","A1","N","I1">>)
        \o <<Sp>>
        \o WordI(<<"P","O","Z","E","M","K","U3">>)
        \o <<Gap>>
        \o WordI(<<"H","Y","P","O","T","E","C2","N","I1","H","O">>)
        \o <<Gap>>
        \o WordI(<<"U1","V","E2","R","U">>),
      \* pattern 6 of the list
      WordI(<<"C","i1","l","e","m">>)
        \o <<Sp>>
        \o WordI(<<"t","e1","t","o">>)
        \o <<Sp>>
        \o WordI(<<"z","m","e2","n","y">>)
        \o <<Gap>>
        \o WordI(<<"o","c","e","n2","o","v","a1","n","i1">>)
        \o <<Gap>>
        \o WordI(<<"p","o","z","e","m","k","u3">>),
      \* pattern 7 of the list
      WordI(<<"S","t","a","v","e","b","n","i1","m">>)
        \o <<Sp>>
        \o WordI(<<"p","o","z","e","m","k","e","m">>)
        \o <<Gap>>
        \o WordI(<<"S","t","a","v","e","b","n","i1","h","o">>)
        \o <<Sp>>
        \o WordI(<<"z","a1","k","o","n","a">>),
      \* pattern 8 of the list
      WordI(<<"U1","v","o","d">>)
        \o <<Rep(WhiteSpace \cup {":"}, 0, -1)>>
        \o WordI(<<"S","t","a","v","e","b","n","i1","m">>)
        \o <<Sp>>
        \o WordI(<<"p","o","z","e","m","k","e","m">>),
      \* pattern 9 of the list
      WordI(<<"p","r","a1","v","n","e2">>)
        \o <<Sp>>
        \o WordI(<<"z","a","j","i","s2","t","e2","n","y1">>)
        \o <<Sp>>
        \o WordI(<<"p","r2","i1","s","t","u","p">>)
        \o <<Gap>>
        \o WordI(<<"k","o","m","u","n","i","k","a","c","e">>),
      \* pattern 10 of the list
      WordI(<<"P","r","o","t","o","k","o","l">>)
        \o <<Sp>>
        \o WordI(<<"o">>)
        \o <<Sp>>
        \o WordI(<<"s","t","a","v","u">>)
        \o <<Sp>>
        \o WordI(<<"v","y1","s","t","a","v","b","y">>)
    >>

(***************************************************************************)
(* The final cleanup of cleanExtractedText (server.js 753-758).            *)
(***************************************************************************)

\* /\s+/g
ReSpaces == <<Rep(WhiteSpace, 1, -1)>>

\* /\s+([,.;:!?])/g
ReSpaceBeforePunct == <<Rep(WhiteSpace, 1, -1), One(Punct)>>

\* /([,.;:!?])\s*/g
RePunctSpace == <<One(Punct), Rep(WhiteSpace, 0, -1)>>

\* the final cleanup with the g flag of its second replace forgotten
FinalCleanupFirstOnly(t) ==
    Trim(ReplaceAll(RePunctSpace,
            ReplaceFirst(ReSpaceBeforePunct,
                ReplaceAll(ReSpaces, t, <<Lit(<<" ">>)>>),
                <<Grp(2, 2)>>),
            <<Grp(1, 1), Lit(<<" ">>)>>))

FinalCleanup(t) ==
    Trim(ReplaceAll(RePunctSpace,
            ReplaceAll(ReSpaceBeforePunct,
                ReplaceAll(ReSpaces, t, <<Lit(<<" ">>)>>),
                <<Grp(2, 2)>>),
            <<Grp(1, 1), Lit(<<" ">>)>>))

(***************************************************************************)
(* cleanExtractedText (server.js 605-763).                                 *)
(***************************************************************************)

\* [a-z...\s,.-] of the patterns of 696-698 under /i
PhraseChar == CzechLetter \cup WhiteSpace \cup {",", ".", "-"}

\* patterns (695-699), all /gi
LoosePatterns ==
    <<
      <<One(CzechLetter), Rep(PhraseChar, 1, -1), AnyWordI(KeyWords1), Rep(PhraseChar, 0, -1)>>,
      <<AnyWordI(KeyWords2), Rep(PhraseChar, 1, -1)>>,
      <<Rep(PhraseChar, 0, -1),
        Alt(<<WordI(<<"p","r","o">>) \o <<Sp>> \o WordI(<<"o","d","h","a","d","c","e">>),
              WordI(<<"s","p","o","r2","i","t","e","l","n","a">>),
              WordI(<<"b","a","n","k","a">>),
              WordI(<<"u1","v","e2","r">>)>>),
        Rep(PhraseChar, 0, -1)>>
    >>

\* /[^\x20-\x7E\u00A0-\u024F\u1E00-\u1EFF]/
ReUnreadable == <<NotRep(Printable, 1, 1)>>

\* /^[A-Z]{3,}$/
ReAllCaps == <<[k |-> "bol"], Rep(AsciiUpper, 3, -1), [k |-> "eol"]>>

\* /^(iwa|Index|...)$/i of the word test
ReSkipWord == <<[k |-> "bol"], AnyWordI(SkipWords), [k |-> "eol"]>>

\* /[a-z...A-Z...]{3,}/
ReCzechWord == <<Rep(CzechLetter, 3, -1)>>

\* /[.!?:]$/
ReSentenceEnd == <<One({".", "!", "?", ":"}), [k |-> "eol"]>>

\* /\b(iwa|Index|...|USD)\b/gi of the run cleanup
ReMetadataWord == <<[k |-> "wb"], AnyWordI(SkipWords \o MoreMetadataWords), [k |-> "wb"]>>

\* /\b[a-zA-Z]{1,2}\b/g
ReShortWord == <<[k |-> "wb"], Rep(AsciiLower \cup AsciiUpper, 1, 2), [k |-> "wb"]>>

\* /^(iwa|Index|...|Style)$/i of the last resort
ReLastResortWord == <<[k |-> "bol"], AnyWordI(LastResortWords), [k |-> "eol"]>>

\* a matched phrase is kept when longer than this (636)
MinPhraseLen == 20

\* a loosely matched phrase is kept when longer than this (708)
MinLoosePhraseLen == 10

\* a run is kept when it holds this many Czech words (662, 678, 686)
MinCzechWords == 3

\* the last resort runs below this many characters (737)
LastResortBelow == 100

\* the last resort keeps this many words (749)
LastResortWordCount == 100

Blank == <<Lit(<<" ">>)>>

\* match.replace(/[^\x20-...]/g, ' ').replace(/\s+/g, ' ').trim() (633-635, 705-707)
TidyMatch(m) == Trim(ReplaceAll(ReSpaces, ReplaceAll(ReUnreadable, m, Blank), Blank))

TidyEach(ms) == [x \in 1..Len(ms) |-> TidyMatch(ms[x])]

\* the matches of every pattern, tidied, those longer than minLen (629-638, 701-710)
PhrasesOf(patterns, text, minLen) ==
    Flat([p \in 1..Len(patterns) |->
            SelectSeq(TidyEach(Matches(patterns[p], text)), LAMBDA t : Len(t) > minLen)])

\* the word test of the run loop (658-660): TRUE for a word that breaks the run
IsSkipped(word) == Test(ReAllCaps, word) \/ Test(ReUnreadable, word) \/ Test(ReSkipWord, word)

\* a broken run kept whatever the number of its Czech words
FlushRunAny(sentences, currentSentence, czechWordCount) ==
    IF Len(currentSentence) > 0
    THEN Append(sentences, Join(currentSentence, <<" ">>))
    ELSE sentences

\* what a broken run leaves in sentences (662-664, 686-688)
FlushRun(sentences, currentSentence, czechWordCount) ==
    IF czechWordCount >= MinCzechWords /\ Len(currentSentence) > 0
    THEN Append(sentences, Join(currentSentence, <<" ">>))
    ELSE sentences

RECURSIVE WordRuns(_, _, _, _, _), KeepWord(_, _, _, _, _)
\* the run loop (654-688) from word i on
WordRuns(words, i, currentSentence, czechWordCount, sentences) ==
    IF i > Len(words) THEN FlushRun(sentences, currentSentence, czechWordCount)
    ELSE IF IsSkipped(words[i])
    THEN WordRuns(words, i + 1, <<>>, 0, FlushRun(sentences, currentSentence, czechWordCount))
    ELSE KeepWord(words, i, Append(currentSentence, words[i]),
                  IF Test(ReCzechWord, words[i]) THEN czechWordCount + 1 ELSE czechWordCount,
                  sentences)

\* 670-683: word i has joined the run; a sentence end closes a run of enough words
KeepWord(words, i, currentSentence, czechWordCount, sentences) ==
    IF Test(ReSentenceEnd, words[i]) /\ czechWordCount >= MinCzechWords
    THEN WordRuns(words, i + 1, <<>>, 0, Append(sentences, Join(currentSentence, <<" ">>)))
    ELSE WordRuns(words, i + 1, currentSentence, czechWordCount, sentences)

\* 691-711: the loose patterns are tried when the run loop found no sentence
OrLoosePhrases(sentences, text) ==
    IF Len(sentences) = 0 THEN PhrasesOf(LoosePatterns, text, MinLoosePhraseLen) ELSE sentences

\* sentences as it stands at line 713
SentencesOf(text) == OrLoosePhrases(WordRuns(Split(ReSpaces, text), 1, <<>>, 0, <<>>), text)

\* the cleanup of the joined sentences (719-730)
CleanRuns(cleanText) ==
    Trim(ReplaceAll(ReSpaces,
            ReplaceAll(ReShortWord,
                ReplaceAll(ReMetadataWord,
                    ReplaceAll(ReSpaces, ReplaceAll(ReUnreadable, cleanText, Blank), Blank),
                    Blank),
                Blank),
            Blank))

\* Array.prototype.slice(0, n)
Slice(ts, n) == SubSeq(ts, 1, IF Len(ts) < n THEN Len(ts) ELSE n)

\* the last resort (741-750): the first words of Czech letters that are no metadata
LastResortOf(words, cleanText) ==
    IF Len(words) > 0
    THEN Join(Slice(SelectSeq(words, LAMBDA w : ~Test(ReLastResortWord, w) /\ Len(w) > 2),
                    LastResortWordCount),
              <<" ">>)
    ELSE cleanText

LastResort(text, cleanText) == LastResortOf(Matches(ReCzechWord, text), cleanText)

\* 716-762: the joined sentences are cleaned and returned when there are any (733);
\* the last resort and the final cleanup are for a text without sentences (762)
AfterSentences(text, cleanText) ==
    IF Len(cleanText) > 0 THEN [text |-> CleanRuns(cleanText), path |-> "runs"]
    ELSE [text |-> FinalCleanup(IF Len(cleanText) < LastResortBelow
                                THEN LastResort(text, cleanText) ELSE cleanText),
          path |-> "final"]

\* 640-714: the phrases found are joined and returned (643); without any, the
\* words are classified
AfterPhrases(text, foundSentences) ==
    IF Len(foundSentences) > 0
    THEN [text |-> Trim(Join(foundSentences, <<" ">>)), path |-> "phrases"]
    ELSE AfterSentences(text, Trim(Join(SentencesOf(text), <<" ">>)))

\* cleanExtractedText with the return statement it took: "empty" (606),
\* "phrases" (643), "runs" (733) or "final" (762)
CleanExtracted(text) ==
    IF text = <<>> THEN [text |-> <<>>, path |-> "empty"]
    ELSE AfterPhrases(text, PhrasesOf(CzechTextPatterns, text, MinPhraseLen))

cleanExtractedText(text) == CleanExtracted(text).text

(***************************************************************************)
(* Bytes and their decodings (iconv-lite, Buffer.prototype.toString).      *)
(* A buffer is a sequence of bytes; the bytes from 0x80 that the buffers   *)
(* here hold are 0xA1, 0xB9 and 0xC5.                                      *)
(***************************************************************************)

\* the characters 0x20..0x7E in code order
Ascii ==
    <<" ","!","QUOT","#","$","%","&","APOS","(",")","*","+",",","-",".","/",
      "0","1","2","3","4","5","6","7","8","9",":",";","<","=",">","?",
      "@","A","B","C","D","E","F","G","H","I","J","K","L","M","N","O",
      "P","Q","R","S","T","U","V","W","X","Y","Z","[","\\","]","^","_",
      "TICK","a","b","c","d","e","f","g","h","i","j","k","l","m","n","o",
      "p","q","r","s","t","u","v","w","x","y","z","{","|","}","~">>

\* the character of a byte below 0x80
AsciiChar(b) ==
    IF b >= 32 /\ b <= 126 THEN Ascii[b - 31]
    ELSE IF b = 9 THEN "\t"
    ELSE IF b = 10 THEN "\n"
    ELSE IF b = 12 THEN "\f"
    ELSE IF b = 13 THEN "\r"
    ELSE IF b = 0 THEN "NUL"
    ELSE "^A"

\* windows-1250: 0xA1 caron, 0xB9 a with ogonek, 0xC5 L with acute
Cp1250High == (161 :> "CARON") @@ (185 :> "a4") @@ (197 :> "L1")

\* iso-8859-2: 0xA1 A with ogonek, 0xB9 s with caron, 0xC5 L with acute
Iso88592High == (161 :> "A4") @@ (185 :> "s2") @@ (197 :> "L1")

\* iconv.decode with a single-byte code page
DecodeSingleByte(buffer, high) ==
    [i \in 1..Len(buffer) |-> IF buffer[i] < 128 THEN AsciiChar(buffer[i]) ELSE high[buffer[i]]]

\* the characters of the two-byte sequences the buffers can hold:
\* C5 A1 is U+0161 (s with caron), C5 B9 is U+0179 (Z with acute)
CodePointChar(cp) == IF cp = 353 THEN "s2" ELSE IF cp = 377 THEN "Z1" ELSE "U+"

\* a lead byte C2..DF of a two-byte sequence, and a continuation byte
IsLeadByte(b) == b >= 194 /\ b <= 223

IsContinuationByte(b) == b >= 128 /\ b <= 191

\* what the byte at place i of the buffer decodes to: nothing for the
\* continuation byte of a sequence
DecodedAt(buffer, i) ==
    IF buffer[i] < 128 THEN <<AsciiChar(buffer[i])>>
    ELSE IF IsLeadByte(buffer[i]) /\ i < Len(buffer) /\ IsContinuationByte(buffer[i + 1])
    THEN <<CodePointChar((buffer[i] - 192) * 64 + (buffer[i + 1] - 128))>>
    ELSE IF IsContinuationByte(buffer[i]) /\ i > 1 /\ IsLeadByte(buffer[i - 1])
    THEN <<>>
    ELSE <<"FFFD">>

\* utf-8 decoding: a byte below 0x80 is its character, a lead byte C2..DF with a
\* continuation byte is one character, every other byte is U+FFFD
DecodeUtf8(buffer) == Flat([i \in 1..Len(buffer) |-> DecodedAt(buffer, i)])

\* String.prototype.toLowerCase
ToLowerCase(s) ==
    [i \in 1..Len(s) |->
        IF \E j \in 1..Len(CaseUpper) : CaseUpper[j] = s[i]
        THEN CaseLower[CHOOSE j \in 1..Len(CaseUpper) : CaseUpper[j] = s[i]]
        ELSE s[i]]

\* the expression that matches the text w literally
Literal(w) == <<Word([x \in 1..Len(w) |-> {w[x]}])>>

\* String.prototype.includes
Includes(s, w) == Test(Literal(w), s)

\* String.prototype.endsWith
EndsWith(s, w) == Len(s) >= Len(w) /\ SubSeq(s, Len(s) - Len(w) + 1, Len(s)) = w

\* what the try block of 783-796 can meet: jschardet.detect throws, or it gives
\* an encoding name (<<>> for null) and iconv.decode then returns or throws
Detections ==
    {[threw |-> TRUE, encoding |-> <<>>, decodeThrew |-> FALSE]} \cup
    {[threw |-> FALSE, encoding |-> e, decodeThrew |-> t] :
        e \in {<<>>, <<"w","i","n","d","o","w","s","-","1","2","5","0">>,
               <<"I","S","O","-","8","8","5","9","-","2">>, <<"U","T","F","-","8">>},
        t \in BOOLEAN}

\* 789-796: the decoding for the lower-cased name of the encoding
DecodeAs(buffer, encoding) ==
    IF \/ Includes(encoding, <<"w","i","n","d","o","w","s","-","1","2","5","0">>)
       \/ Includes(encoding, <<"c","p","1","2","5","0">>)
    THEN DecodeSingleByte(buffer, Cp1250High)
    ELSE IF Includes(encoding, <<"i","s","o","-","8","8","5","9","-","2">>)
    THEN DecodeSingleByte(buffer, Iso88592High)
    ELSE DecodeUtf8(buffer)

\* detected is what jschardet.detect(buffer) and iconv.decode did; utf-8 when
\* one of them throws (797-800) or when no encoding is named (786)
detectAndDecodeText(buffer, detected) ==
    IF detected.threw \/ detected.decodeThrew THEN DecodeUtf8(buffer)
    ELSE DecodeAs(buffer, ToLowerCase(IF detected.encoding = <<>>
                                      THEN <<"u","t","f","-","8">> ELSE detected.encoding))

(***************************************************************************)
(* The results of the extractors.  An error message is the sequence of the *)
(* pieces of its template literal (written here without diacritics); <<>>  *)
(* is a result without an error property.  threw marks a call that ended   *)
(* with an exception instead of a result.                                  *)
(***************************************************************************)

NoResult ==
    [threw |-> FALSE, success |-> FALSE, text |-> <<>>, textNull |-> TRUE,
     error |-> <<>>, format |-> "none", length |-> -1]

\* { success: true, text, metadata: { format, length } }
Success(text, format, length) ==
    [threw |-> FALSE, success |-> TRUE, text |-> text, textNull |-> FALSE,
     error |-> <<>>, format |-> format, length |-> length]

\* { success: false, error: `${prefix}${message}`, text: null }
Failure(prefix, message) ==
    [threw |-> FALSE, success |-> FALSE, text |-> <<>>, textNull |-> TRUE,
     error |-> <<prefix, message>>, format |-> "none", length |-> -1]

\* { success: true, text, metadata: { format, length: text.length } }
Extracted(text, format) == Success(text, format, Len(text))

\* { success: true, text: text.trim(), metadata: { format, length: text.length } }
ExtractedTrimmed(text, format) == Success(Trim(text), format, Len(text))

\* throw new Error(`${prefix}${message}`)
Thrown(prefix, message) ==
    [threw |-> TRUE, success |-> FALSE, text |-> <<>>, textNull |-> TRUE,
     error |-> <<prefix, message>>, format |-> "none", length |-> -1]

\* the message of an error that a library threw
LibraryMessage == "library error"

DocxPrefix == "Chyba pri cteni DOCX souboru: "

PdfPrefix == "Chyba pri cteni PDF souboru: "

RtfPrefix == "Chyba pri cteni RTF souboru: "

ExcelPrefix == "Chyba pri cteni Excel souboru: "

CsvPrefix == "Chyba pri cteni CSV souboru: "

MarkdownPrefix == "Chyba pri cteni Markdown souboru: "

TextPrefix == "Chyba pri cteni textoveho souboru: "

PagesPrefix == "Nelze zpracovat .pages soubor: "

(***************************************************************************)
(* The standard extractors (server.js 806-1095).  The answer of the        *)
(* decoding library is an argument: [threw, text] for mammoth and          *)
(* pdf-parse, [threw, sheets] for xlsx.                                    *)
(***************************************************************************)

\* a text without anything but whitespace: !t || t.trim().length === 0
IsBlank(t) == Len(Trim(t)) = 0

\* parseDocx without its try and catch
parseDocxUncaught(mammothResult) ==
    IF mammothResult.threw THEN Thrown("", LibraryMessage)
    ELSE IF IsBlank(mammothResult.text)
    THEN Thrown("", "Dokument neobsahuje zadny citelny text")
    ELSE ExtractedTrimmed(mammothResult.text, "docx")

parseDocx(mammothResult) ==
    IF mammothResult.threw THEN Failure(DocxPrefix, LibraryMessage)
    ELSE IF IsBlank(mammothResult.text)
    THEN Failure(DocxPrefix, "Dokument neobsahuje zadny citelny text")
    ELSE ExtractedTrimmed(mammothResult.text, "docx")

\* /\n\s*\n/g
ReBlankLines == <<One({"\n"}), Rep(WhiteSpace, 0, -1), One({"\n"})>>

parsePdf(data) ==
    IF data.threw THEN Failure(PdfPrefix, LibraryMessage)
    ELSE IF IsBlank(data.text)
    THEN Failure(PdfPrefix, "PDF neobsahuje zadny extraktovatelny text nebo je sifrovany")
    ELSE Extracted(Trim(ReplaceAll(ReBlankLines,
                            ReplaceAll(ReSpaces, data.text, <<Lit(<<" ">>)>>),
                            <<Lit(<<"\n", "\n">>)>>)),
                   "pdf")

\* /\\[a-z]+\d*\s?/gi
ReRtfControlWord ==
    <<One({"\\"}), Rep(AsciiLower \cup AsciiUpper, 1, -1), Rep(Digit, 0, -1), Rep(WhiteSpace, 0, 1)>>

\* /\{[^{}]*\}/g
ReRtfGroup == <<One({"{"}), NotRep({"{", "}"}, 0, -1), One({"}"})>>

\* the substitutions of 895-901
RtfCleanup(rtfContent) ==
    Trim(ReplaceAll(ReSpaces,
         ReplaceAll(Literal(<<"\\", "\\">>),
         ReplaceAll(Literal(<<"\\", "QUOT">>),
         ReplaceAll(Literal(<<"\\", "APOS">>),
         ReplaceAll(ReRtfGroup,
         ReplaceAll(ReRtfControlWord, rtfContent, <<Lit(<<" ">>)>>),
            <<>>),
            <<Lit(<<"APOS">>)>>),
            <<Lit(<<"QUOT">>)>>),
            <<Lit(<<"\\">>)>>),
            <<Lit(<<" ">>)>>))

\* 903-913: the test of the cleaned text
RtfResult(text) ==
    IF Len(text) = 0 THEN Failure(RtfPrefix, "RTF soubor neobsahuje zadny citelny text")
    ELSE Extracted(text, "rtf")

parseRtf(buffer, detected) == RtfResult(RtfCleanup(detectAndDecodeText(buffer, detected)))

RECURSIVE SheetsText(_)
\* allText of 936-946: `\n=== ${sheetName} ===\n${sheetText}\n` for every sheet
\* whose text is not blank
SheetsText(sheets) ==
    IF sheets = <<>> THEN <<>>
    ELSE (IF Len(Trim(Head(sheets).text)) > 0
          THEN <<"\n", "=", "=", "=", " ">> \o Head(sheets).name \o <<" ", "=", "=", "=", "\n">>
                    \o Head(sheets).text \o <<"\n">>
          ELSE <<>>)
         \o SheetsText(Tail(sheets))

\* 948-959: the test of the collected text
ExcelResult(allText) ==
    IF IsBlank(allText) THEN Failure(ExcelPrefix, "Excel soubor neobsahuje zadny citelny text")
    ELSE ExtractedTrimmed(allText, "excel")

parseExcel(workbook) ==
    IF workbook.threw THEN Failure(ExcelPrefix, LibraryMessage)
    ELSE ExcelResult(SheetsText(workbook.sheets))

RECURSIVE NatChars(_)
\* the decimal digits of a number in a template literal
NatChars(n) ==
    IF n < 10 THEN <<Ascii[n + 17]>> ELSE NatChars(n \div 10) \o <<Ascii[(n % 10) + 17]>>

\* the line of index `index` among the lines that are not blank (990-997)
CsvLine(line, index) ==
    (IF index = 0 THEN <<"Z","a1","h","l","a","v","i1",":"," ">>
     ELSE <<"R2","a1","d","e","k"," ">> \o NatChars(index) \o <<":", " ">>)
        \o Join(Split(Literal(<<",">>), line), <<" ", "|", " ">>)

\* 989-998: the lines that are not blank, labelled and joined
CsvOutput(lines) == Join([i \in 1..Len(lines) |-> CsvLine(lines[i], i - 1)], <<"\n">>)

\* the lines labelled by their index among all the lines, blank ones counted
CsvOutputAllCounted(lines) ==
    Join(SelectSeq([i \in 1..Len(lines) |->
                        IF Len(Trim(lines[i])) > 0 THEN CsvLine(lines[i], i - 1) ELSE <<>>],
                   LAMBDA line : line # <<>>),
         <<"\n">>)

\* parseCsv numbering its rows before it drops the blank lines
CsvResultAllCounted(csvContent) ==
    IF IsBlank(csvContent) THEN Failure(CsvPrefix, "CSV soubor je prazdny")
    ELSE Extracted(CsvOutputAllCounted(Split(Literal(<<"\n">>), csvContent)), "csv")

\* 981-1006: the test of the decoded content and the output of its lines
CsvResult(csvContent) ==
    IF IsBlank(csvContent) THEN Failure(CsvPrefix, "CSV soubor je prazdny")
    ELSE Extracted(CsvOutput(SelectSeq(Split(Literal(<<"\n">>), csvContent),
                                       LAMBDA line : Len(Trim(line)) > 0)),
                   "csv")

parseCsv(buffer, detected) == CsvResult(detectAndDecodeText(buffer, detected))

\* . of a regular expression: every character but a line terminator
LineTerminator == {"\n", "\r"}

\* /^#{1,6}\s+/gm
ReMdHeading == <<[k |-> "bolm"], Rep({"#"}, 1, 6), Rep(WhiteSpace, 1, -1)>>

\* /\*\*(.*?)\*\*/g
ReMdBold ==
    Literal(<<"*", "*">>) \o <<Lazy(NotRep(LineTerminator, 0, -1))>> \o Literal(<<"*", "*">>)

\* /\*(.*?)\*/g
ReMdItalic == <<One({"*"}), Lazy(NotRep(LineTerminator, 0, -1)), One({"*"})>>

\* /`(.*?)`/g
ReMdCode == <<One({"TICK"}), Lazy(NotRep(LineTerminator, 0, -1)), One({"TICK"})>>

\* /```[\s\S]*?```/g
ReMdCodeBlock ==
    Literal(<<"TICK", "TICK", "TICK">>) \o <<Lazy(NotRep({}, 0, -1))>>
        \o Literal(<<"TICK", "TICK", "TICK">>)

\* /\[([^\]]+)\]\([^)]+\)/g
ReMdLink ==
    <<One({"["}), NotRep({"]"}, 1, -1), One({"]"}), One({"("}), NotRep({")"}, 1, -1), One({")"})>>

\* the substitutions of 1035-1042
MarkdownCleanup(text) ==
    Trim(ReplaceAll(ReMdLink,
         ReplaceAll(ReMdCodeBlock,
         ReplaceAll(ReMdCode,
         ReplaceAll(ReMdItalic,
         ReplaceAll(ReMdBold,
         ReplaceAll(ReMdHeading, text, <<>>),
            <<Grp(2, 2)>>),
            <<Grp(2, 2)>>),
            <<Grp(2, 2)>>),
            <<Lit(<<"[","K","O1","D","]">>)>>),
            <<Grp(2, 2)>>))

\* 1030-1049: the test of the decoded text comes before its cleanup
MarkdownResult(text) ==
    IF IsBlank(text) THEN Failure(MarkdownPrefix, "Markdown soubor je prazdny")
    ELSE Extracted(MarkdownCleanup(text), "markdown")

parseMarkdown(buffer, detected) == MarkdownResult(detectAndDecodeText(buffer, detected))

\* the result of parseText without its test for an empty file
TextResultUnchecked(text) == ExtractedTrimmed(text, "text")

\* 1073-1083: the test of the decoded text
TextResult(text) ==
    IF IsBlank(text) THEN Failure(TextPrefix, "Textovy soubor je prazdny")
    ELSE ExtractedTrimmed(text, "text")

parseText(buffer, detected) == TextResult(detectAndDecodeText(buffer, detected))

(***************************************************************************)
(* The .pages converter (server.js 330-600).  The archive that AdmZip      *)
(* finds in the buffer is an argument: [threw, entries].  An entry holds   *)
(* its name and what the libraries make of its data: whether getData       *)
(* returns it, what pdf-parse answers for it, the data as a utf-8 string,  *)
(* what xml2js parses that string to, and what zlib.gunzipSync and xml2js  *)
(* make of it.                                                             *)
(***************************************************************************)

\* an object that xml2js resolved with: a string, an object with its
\* properties in order, or an array
XmlString(chars) == [t |-> "str", s |-> chars, v |-> <<>>]

XmlObject(props) == [t |-> "obj", s |-> <<>>, v |-> props]

XmlArray(items) == [t |-> "arr", s |-> <<>>, v |-> items]

Undefined == [t |-> "undef", s |-> <<>>, v |-> <<>>]

\* a value that an if takes for true
Truthy(x) == x.t \in {"obj", "arr"} \/ (x.t = "str" /\ x.s # <<>>)

\* obj[key]
Prop(obj, key) ==
    IF obj.t = "obj" /\ \E i \in 1..Len(obj.v) : obj.v[i].k = key
    THEN obj.v[CHOOSE i \in 1..Len(obj.v) : obj.v[i].k = key].v
    ELSE Undefined

\* textKeys (495-502)
TextKeys ==
    <<"text", "Text", "TEXT", "string", "String", "STRING", "content", "Content", "CONTENT",
      "p", "P", "paragraph", "span", "SPAN", "div", "DIV", "t", "T", "s", "S">>

IsTextKey(key) == \E i \in 1..Len(TextKeys) : TextKeys[i] = key

\* a value in a string concatenation
Stringified(x) == IF x.t = "str" THEN x.s ELSE <<"[object]">>

\* 489-491 for sfText = obj.sf.text and under = obj.sf.text._
SfTextOf(sfText, under) ==
    IF Truthy(under) THEN Stringified(under) \o <<" ">>
    ELSE IF sfText.t = "str" THEN sfText.s \o <<" ">>
    ELSE <<>>

\* the special case of 488-492: obj.sf.text._ or the string obj.sf.text
SfText(obj) ==
    IF Truthy(Prop(obj, "sf")) /\ Truthy(Prop(Prop(obj, "sf"), "text"))
    THEN SfTextOf(Prop(Prop(obj, "sf"), "text"), Prop(Prop(Prop(obj, "sf"), "text"), "_"))
    ELSE <<>>

RECURSIVE traverse(_), TextKeyValue(_)
\* 505-513: what the value of a text key appends to text
TextKeyValue(v) ==
    IF ~Truthy(v) THEN <<>>
    ELSE IF v.t = "str" THEN v.s \o <<" ">>
    ELSE IF v.t = "arr" THEN Flat([j \in 1..Len(v.v) |-> traverse(v.v[j])])
    ELSE traverse(v)

\* what traverse(obj) appends to text (478-524)
traverse(obj) ==
    IF ~Truthy(obj) THEN <<>>
    ELSE IF obj.t = "str" THEN obj.s \o <<" ">>
    ELSE SfText(obj)
         \o Flat([i \in 1..Len(TextKeys) |-> TextKeyValue(Prop(obj, TextKeys[i]))])
         \o Flat([i \in 1..Len(obj.v) |->
                IF obj.t = "arr" THEN traverse(obj.v[i])
                ELSE IF IsTextKey(obj.v[i].k) THEN <<>>
                ELSE traverse(obj.v[i].v)])

extractTextFromPagesXML(xmlObject) == traverse(xmlObject)

\* /<[^>]*>/g
ReXmlTag == <<One({"<"}), NotRep({">"}, 0, -1), One({">"})>>

extractTextDirect(xmlString) ==
    Trim(ReplaceAll(ReSpaces,
         ReplaceAll(Literal(<<"&","n","b","s","p",";">>),
         ReplaceAll(Literal(<<"&","#","0","3","9",";">>),
         ReplaceAll(Literal(<<"&","q","u","o","t",";">>),
         ReplaceAll(Literal(<<"&","g","t",";">>),
         ReplaceAll(Literal(<<"&","l","t",";">>),
         ReplaceAll(Literal(<<"&","a","m","p",";">>),
         ReplaceAll(ReXmlTag, xmlString, <<Lit(<<" ">>)>>),
            <<Lit(<<"&">>)>>),
            <<Lit(<<"<">>)>>),
            <<Lit(<<">">>)>>),
            <<Lit(<<"QUOT">>)>>),
            <<Lit(<<"APOS">>)>>),
            <<Lit(<<" ">>)>>),
            <<Lit(<<" ">>)>>))

\* the scan reads at most this many bytes (558)
MaxScanBytes == 1000000

\* the binary analysis runs when the patterns found fewer characters than this (577)
BinaryScanBelow == 100

\* [A-Za-z\u00C0-\u00FF\u0100-\u017E...] (562) among the characters a decoded buffer can hold
ScanLetter == AsciiLower \cup AsciiUpper \cup CzechLetter \cup {"a4", "A4", "L1", "Z1"}

\* textPatterns (561-565); no character of a decoded buffer here is Hebrew or Arabic
TextPatterns == <<<<Rep(ScanLetter, 3, -1)>>, <<Rep({}, 3, -1)>>, <<Rep({}, 3, -1)>>>>

\* 571-573: the matches of one pattern, joined
JoinedMatches(matches) == IF matches # <<>> THEN Join(matches, <<" ">>) \o <<" ">> ELSE <<>>

\* the loop of 569-574
PatternText(bufferString) ==
    Flat([x \in 1..Len(TextPatterns) |-> JoinedMatches(Matches(TextPatterns[x], bufferString))])

\* 587-589 for two code units
Utf16Pair(char1, char2) ==
    IF char1 >= 32 /\ char1 < 127 /\ char2 >= 32 /\ char2 < 127
    THEN <<AsciiChar(char1), AsciiChar(char2)>>
    ELSE <<>>

\* the loop of 581-591 over the byte positions, here counted from 1
Utf16Text(buffer) ==
    Flat([i \in 1..(Len(buffer) - 4) |->
            IF buffer[i + 1] = 0 /\ buffer[i + 3] = 0
            THEN Utf16Pair(buffer[i] + buffer[i + 1] * 256, buffer[i + 2] + buffer[i + 3] * 256)
            ELSE <<>>])

\* the binary analysis run whatever the length of the text
WithBinaryScanAlways(buffer, extractedText) == extractedText \o Utf16Text(buffer)

\* 577-594: the binary analysis adds to a short text
WithBinaryScan(buffer, extractedText) ==
    IF Len(extractedText) < BinaryScanBelow THEN extractedText \o Utf16Text(buffer)
    ELSE extractedText

extractTextAlternative(buffer) ==
    WithBinaryScan(buffer,
        PatternText(DecodeUtf8(SubSeq(buffer, 1, IF Len(buffer) < MaxScanBytes
                                                 THEN Len(buffer) ELSE MaxScanBytes))))

\* the test of 345 on the lower-cased name of an entry
IsPreviewLower(name) ==
    \/ EndsWith(name, <<"q","u","i","c","k","l","o","o","k","/","p","r","e","v","i","e","w",".","p","d","f">>)
    \/ EndsWith(name, <<"/","p","r","e","v","i","e","w",".","p","d","f">>)
    \/ name = <<"p","r","e","v","i","e","w",".","p","d","f">>

IsPreviewName(entryName) == IsPreviewLower(ToLowerCase(entryName))

\* 347-355 for the entries that zipEntries.find could return
PreviewTextOf(found) ==
    IF found # <<>> /\ found[1].readable /\ ~found[1].pdf.threw /\ Len(Trim(found[1].pdf.text)) > 0
    THEN found[1].pdf.text
    ELSE <<>>

\* strategy 1 (342-358): the text of the first preview entry, when pdf-parse gives one
\* that is not blank; every failure in it is caught
PreviewPdfText(entries) == PreviewTextOf(SelectSeq(entries, LAMBDA e : IsPreviewName(e.entryName)))

\* the loop leaving every entry alone
SkipsEntryNever(extractedText) == FALSE

\* the test of 376: the loop leaves the entry alone once there is a text
SkipsEntry(extractedText) == Len(extractedText) > 0

\* 382-410: index.xml; getData is called outside the inner try
AfterIndexXml(e, st) ==
    IF ~(e.entryName = <<"i","n","d","e","x",".","x","m","l">> \/ EndsWith(e.entryName, <<"/","i","n","d","e","x",".","x","m","l">>))
    THEN st
    ELSE IF ~e.readable THEN [st EXCEPT !.threw = TRUE]
    ELSE IF e.xml.threw
    THEN [st EXCEPT !.text = extractTextDirect(e.content), !.strategy = "direct"]
    ELSE [st EXCEPT !.text = extractTextFromPagesXML(e.xml.obj), !.strategy = "index"]

\* 428-430: the text of a gzip entry replaces a shorter one
LongerText(st, text) ==
    IF Len(text) > Len(st.text) THEN [st EXCEPT !.text = text, !.strategy = "gz"] ELSE st

\* 413-435: a gzip entry; every failure in it is caught
AfterGz(e, st) ==
    IF st.threw \/ ~EndsWith(e.entryName, <<".","g","z">>) THEN st
    ELSE IF ~e.readable \/ e.gunzip.threw \/ ~Includes(e.gunzip.content, <<"<","?","x","m","l">>)
            \/ e.gunzip.xml.threw
    THEN st
    ELSE LongerText(st, extractTextFromPagesXML(e.gunzip.xml.obj))

\* 438-445: a property list is read for the log only
AfterPlist(e, st) ==
    IF st.threw \/ ~EndsWith(e.entryName, <<".","p","l","i","s","t">>) THEN st
    ELSE IF ~e.readable THEN [st EXCEPT !.threw = TRUE]
    ELSE st

RECURSIVE EntriesLoop(_, _, _)
\* the loop of 372-446 from entry i on; st is [text, strategy, threw]
EntriesLoop(entries, i, st) ==
    IF i > Len(entries) \/ st.threw THEN st
    ELSE IF SkipsEntry(st.text) THEN EntriesLoop(entries, i + 1, st)
    ELSE EntriesLoop(entries, i + 1, AfterPlist(entries[i], AfterGz(entries[i], AfterIndexXml(entries[i], st))))

\* the return statement with success fixed to true
PagesReturnAlwaysSuccess(extractedText) ==
    [threw |-> FALSE, success |-> TRUE, text |-> extractedText,
     textNull |-> FALSE, error |-> <<>>, format |-> "none", length |-> -1]

\* the return statement (459-463): text, metadata and success, no error property
PagesReturn(extractedText) ==
    [threw |-> FALSE, success |-> Len(extractedText) > 0, text |-> extractedText,
     textNull |-> FALSE, error |-> <<>>, format |-> "none", length |-> -1]

\* 465-468: whatever was thrown inside is thrown again, wrapped
PagesThrown ==
    [result |-> Thrown(PagesPrefix, LibraryMessage), extracted |-> <<>>, strategy |-> "none"]

\* 338-358: extractedText after strategy 1
AfterPreview(preview) ==
    [text |-> preview, threw |-> FALSE, strategy |-> IF Len(preview) > 0 THEN "preview" ELSE "none"]

\* 455-463: the text found is cleaned and returned
Cleaned(found) ==
    [result |-> PagesReturn(cleanExtractedText(found.text)),
     extracted |-> found.text, strategy |-> found.strategy]

\* 449-463: the raw scan of the buffer when the entries gave no text
AfterLoop(buffer, looped) ==
    IF looped.threw THEN PagesThrown
    ELSE Cleaned(IF Len(looped.text) = 0
                 THEN [text |-> extractTextAlternative(buffer), strategy |-> "alternative"]
                 ELSE [text |-> looped.text, strategy |-> looped.strategy])

\* [result, extracted, strategy]: what the call ends with, the text handed to
\* cleanExtractedText and the step that produced it
convertPagesToText(buffer, zip) ==
    IF zip.threw THEN PagesThrown
    ELSE AfterLoop(buffer, EntriesLoop(zip.entries, 1, AfterPreview(PreviewPdfText(zip.entries))))

(***************************************************************************)
(* parseDocument (server.js 1100-1156).                                    *)
(***************************************************************************)

\* Array.prototype.pop
Pop(parts) == parts[Len(parts)]

\* fileName.toLowerCase().split(.).pop()
FileExt(fileName) == Pop(Split(Literal(<<".">>), ToLowerCase(fileName)))

\* the extensions that getSupportedFormats lists (1163), without their dots
SupportedExtensions ==
    {<<"t","x","t">>, <<"p","a","g","e","s">>, <<"d","o","c","x">>, <<"p","d","f">>,
     <<"r","t","f">>, <<"x","l","s","x">>, <<"x","l","s">>, <<"c","s","v">>, <<"m","d">>,
     <<"m","a","r","k","d","o","w","n">>}

\* the switch of 1107-1140
Parser(fileExt) ==
    CASE fileExt = <<"d","o","c","x">> -> "parseDocx"
      [] fileExt = <<"p","d","f">> -> "parsePdf"
      [] fileExt = <<"p","a","g","e","s">> -> "convertPagesToText"
      [] fileExt = <<"r","t","f">> -> "parseRtf"
      [] fileExt \in {<<"x","l","s","x">>, <<"x","l","s">>} -> "parseExcel"
      [] fileExt = <<"c","s","v">> -> "parseCsv"
      [] fileExt \in {<<"m","d">>, <<"m","a","r","k","d","o","w","n">>} -> "parseMarkdown"
      [] fileExt \in {<<"t","x","t">>, <<"t","e","x","t">>} -> "parseText"
      [] OTHER -> "parseText"

(***************************************************************************)
(* Spec: one call of parseDocument.  The request is a file name, a MIME    *)
(* type and a buffer; the decoding libraries answer when they are called.  *)
(***************************************************************************)

FileNames ==
    {<<"a",".","d","o","c","x">>,
     <<"a",".","p","d","f">>,
     <<"A",".","P","D","F">>,
     <<"a",".","p","a","g","e","s">>,
     <<"a",".","r","t","f">>,
     <<"a",".","x","l","s","x">>,
     <<"a",".","x","l","s">>,
     <<"a",".","c","s","v">>,
     <<"a",".","m","d">>,
     <<"a",".","m","a","r","k","d","o","w","n">>,
     <<"a",".","t","x","t">>,
     <<"a",".","t","e","x","t">>,
     <<"a",".","b","i","n">>,
     <<"R","E","A","D","M","E">>,
     <<"a",".","p","d","f",".","t","x","t">>,
     <<"a",".">>,
     <<"p","d","f">>}

MimeTypes == {"application/pdf", "text/plain"}

\* nothing, a space, a, "# ", "# a"... as bytes
Buffers ==
    {<<>>, <<32>>, <<97>>, <<35, 32>>, <<185>>, <<197, 161>>, <<97, 97, 97>>, <<105, 119, 97>>,
     <<97, 0, 97, 0, 97>>, <<92, 98>>, <<97, 44, 97, 10, 97>>}

\* the texts a decoding library can find in a document
LibraryTexts == {<<>>, <<"\n", "\n">>, <<"a">>, <<" ", "a", " ", "\n", "\n", "b">>}

\* mammoth.extractRawText and pdf-parse reject or resolve with a text; bytes
\* that are no bytes hold no text
TextResults(bytes) ==
    {[threw |-> TRUE, text |-> <<>>]} \cup
    {[threw |-> FALSE, text |-> t] : t \in IF bytes = <<>> THEN {<<>>} ELSE LibraryTexts}

MaxSheets == 2

\* what sheet_to_txt gives for a sheet
SheetTexts == {<<>>, <<"a">>}

RECURSIVE Workbooks(_)
\* the workbooks of at most n sheets, named S1, S2, ...
Workbooks(n) ==
    IF n = 0 THEN {<<>>}
    ELSE LET fewer == Workbooks(n - 1)
         IN  fewer \cup {Append(w, [name |-> <<"S">> \o NatChars(n), text |-> t]) :
                            w \in {v \in fewer : Len(v) = n - 1}, t \in SheetTexts}

\* xlsx.read throws or gives a workbook; no bytes give no sheet with a text
WorkbookResults(bytes) ==
    {[threw |-> TRUE, sheets |-> <<>>]} \cup
    {[threw |-> FALSE, sheets |-> w] :
        w \in {v \in Workbooks(MaxSheets) :
                bytes = <<>> => \A i \in 1..Len(v) : v[i].text = <<>>}}

NoPdf == [threw |-> TRUE, text |-> <<>>]

NoXml == [threw |-> TRUE, obj |-> Undefined]

NoGunzip == [threw |-> TRUE, content |-> <<>>, xml |-> NoXml]

\* <sl><p>ddd eee fff</p></sl> as xml2js gives it
XmlDocument == XmlObject(<<[k |-> "sl", v |-> XmlObject(<<[k |-> "p", v |-> XmlString(<<"d","d","d"," ","e","e","e"," ","f","f","f">>)]>>)]>>)

\* <p>jjj kkk lll</p>
XmlParagraph == XmlObject(<<[k |-> "p", v |-> XmlString(<<"j","j","j"," ","k","k","k"," ","l","l","l">>)]>>)

\* the entries an archive is made of: a preview PDF with a text, one with blank
\* lines only, an index.xml that parses, one that does not, one that cannot be
\* read, a gzipped index.xml, a property list and a binary document
EntryVariants ==
    {[entryName |-> <<"Q","u","i","c","k","L","o","o","k","/","P","r","e","v","i","e","w",".","p","d","f">>, readable |-> TRUE,
      pdf |-> [threw |-> FALSE, text |-> <<"a","a","a"," ","b","b","b"," ","c","c","c">>],
      content |-> <<>>, xml |-> NoXml, gunzip |-> NoGunzip],
     [entryName |-> <<"Q","u","i","c","k","L","o","o","k","/","P","r","e","v","i","e","w",".","p","d","f">>, readable |-> TRUE,
      pdf |-> [threw |-> FALSE, text |-> <<"\n", "\n">>],
      content |-> <<>>, xml |-> NoXml, gunzip |-> NoGunzip],
     [entryName |-> <<"i","n","d","e","x",".","x","m","l">>, readable |-> TRUE, pdf |-> NoPdf,
      content |-> <<"<","s","l",">","<","p",">","d","d","d"," ","e","e","e"," ","f","f","f","<","/","p",">","<","/","s","l",">">>,
      xml |-> [threw |-> FALSE, obj |-> XmlDocument], gunzip |-> NoGunzip],
     [entryName |-> <<"D","a","t","a","/","i","n","d","e","x",".","x","m","l">>, readable |-> TRUE, pdf |-> NoPdf,
      content |-> <<"<","p",">","g","g","g"," ","h","h","h"," ","i","i","i">>,
      xml |-> NoXml, gunzip |-> NoGunzip],
     [entryName |-> <<"i","n","d","e","x",".","x","m","l">>, readable |-> FALSE, pdf |-> NoPdf,
      content |-> <<>>, xml |-> NoXml, gunzip |-> NoGunzip],
     [entryName |-> <<"i","n","d","e","x",".","x","m","l",".","g","z">>, readable |-> TRUE, pdf |-> NoPdf,
      content |-> <<>>, xml |-> NoXml,
      gunzip |-> [threw |-> FALSE, content |-> <<"<","?","x","m","l","?",">","<","p",">","j","j","j"," ","k","k","k"," ","l","l","l","<","/","p",">">>,
                  xml |-> [threw |-> FALSE, obj |-> XmlParagraph]]],
     [entryName |-> <<"b","u","i","l","d","V","e","r","s","i","o","n","H","i","s","t","o","r","y",".","p","l","i","s","t">>, readable |-> TRUE, pdf |-> NoPdf,
      content |-> <<>>, xml |-> NoXml, gunzip |-> NoGunzip],
     [entryName |-> <<"I","n","d","e","x","/","D","o","c","u","m","e","n","t",".","i","w","a">>, readable |-> TRUE, pdf |-> NoPdf,
      content |-> <<>>, xml |-> NoXml, gunzip |-> NoGunzip]}

MaxEntries == 2

RECURSIVE Archives(_)
\* the entry lists of at most n entries
Archives(n) ==
    IF n = 0 THEN {<<>>}
    ELSE LET fewer == Archives(n - 1)
         IN  fewer \cup {Append(a, e) : a \in {b \in fewer : Len(b) = n - 1}, e \in EntryVariants}

\* new AdmZip(buffer) throws or gives the entries; no bytes hold no entry
ZipResults(bytes) ==
    {[threw |-> TRUE, entries |-> <<>>]} \cup
    {[threw |-> FALSE, entries |-> a] : a \in IF bytes = <<>> THEN {<<>>} ELSE Archives(MaxEntries)}

\* no response was sent yet
NoResponse == [status |-> 0, error |-> <<>>]

DocIdle ==
    /\ dpc = "idle" /\ reqName = <<>> /\ reqMime = "none" /\ reqBytes = <<>>
    /\ lib = <<>> /\ detection = <<>> /\ first = NoResult /\ extracted = <<>>
    /\ strategy = "none" /\ result = NoResult /\ calls = <<>> /\ response = NoResponse

Init ==
    /\ reqName \in FileNames
    /\ reqMime \in MimeTypes
    /\ reqBytes \in Buffers
    /\ dpc = "start"
    /\ lib = <<>>
    /\ detection = <<>>
    /\ first = NoResult
    /\ extracted = <<>>
    /\ strategy = "none"
    /\ result = NoResult
    /\ calls = <<>>
    /\ response = NoResponse
    /\ NormIdle
    /\ CleanIdle
    /\ FunIdle
    /\ PairIdle
    /\ SearchIdle
    /\ SessIdle

\* parseDocument is at its switch and the extension selects this extractor
Selects(parser) == dpc = "start" /\ Parser(FileExt(reqName)) = parser

\* the selected extractor was called and ended
Called(parser) ==
    /\ calls' = <<parser>>
    /\ dpc' = "called"
    /\ UNCHANGED <<reqVars, funVars, pairVars, searchVars, sessVars, result, response, normVars, cleanVars>>

CallParseDocx ==
    /\ Selects("parseDocx")
    /\ \E r \in TextResults(reqBytes) : lib' = <<r>> /\ first' = parseDocx(r)
    /\ Called("parseDocx")
    /\ UNCHANGED <<detection, extracted, strategy>>

CallParsePdf ==
    /\ Selects("parsePdf")
    /\ \E r \in TextResults(reqBytes) : lib' = <<r>> /\ first' = parsePdf(r)
    /\ Called("parsePdf")
    /\ UNCHANGED <<detection, extracted, strategy>>

CallConvertPages ==
    /\ Selects("convertPagesToText")
    /\ \E zip \in ZipResults(reqBytes) :
            /\ lib' = <<zip>>
            /\ \E r \in {convertPagesToText(reqBytes, zip)} :
                    /\ first' = r.result
                    /\ extracted' = r.extracted
                    /\ strategy' = r.strategy
    /\ Called("convertPagesToText")
    /\ UNCHANGED detection

CallParseRtf ==
    /\ Selects("parseRtf")
    /\ \E d \in Detections : detection' = <<d>> /\ first' = parseRtf(reqBytes, d)
    /\ Called("parseRtf")
    /\ UNCHANGED <<lib, extracted, strategy>>

CallParseExcel ==
    /\ Selects("parseExcel")
    /\ \E r \in WorkbookResults(reqBytes) : lib' = <<r>> /\ first' = parseExcel(r)
    /\ Called("parseExcel")
    /\ UNCHANGED <<detection, extracted, strategy>>

CallParseCsv ==
    /\ Selects("parseCsv")
    /\ \E d \in Detections : detection' = <<d>> /\ first' = parseCsv(reqBytes, d)
    /\ Called("parseCsv")
    /\ UNCHANGED <<lib, extracted, strategy>>

CallParseMarkdown ==
    /\ Selects("parseMarkdown")
    /\ \E d \in Detections : detection' = <<d>> /\ first' = parseMarkdown(reqBytes, d)
    /\ Called("parseMarkdown")
    /\ UNCHANGED <<lib, extracted, strategy>>

CallParseText ==
    /\ Selects("parseText")
    /\ \E d \in Detections : detection' = <<d>> /\ first' = parseText(reqBytes, d)
    /\ Called("parseText")
    /\ UNCHANGED <<lib, extracted, strategy>>

\* the catch calling parseText a second time after the first call of it
FallbackTextTwice ==
    /\ dpc = "called"
    /\ first.threw
    /\ \E d \in Detections : detection' = <<d>> /\ result' = parseText(reqBytes, d)
    /\ calls' = calls \o <<"parseText", "parseText">>
    /\ dpc' = "returned"
    /\ UNCHANGED <<reqVars, funVars, pairVars, searchVars, sessVars, lib, first, extracted, strategy, response, normVars, cleanVars>>

\* the catch of 1141-1147: the extractor threw and parseText takes over; parseText
\* throws nothing, so the inner catch of 1148 is never entered
FallbackText ==
    /\ dpc = "called"
    /\ first.threw
    /\ \E d \in Detections : detection' = <<d>> /\ result' = parseText(reqBytes, d)
    /\ calls' = Append(calls, "parseText")
    /\ dpc' = "returned"
    /\ UNCHANGED <<reqVars, funVars, pairVars, searchVars, sessVars, lib, first, extracted, strategy, response, normVars, cleanVars>>

\* return await ...: what the extractor returned is what parseDocument returns
ReturnResult ==
    /\ dpc = "called"
    /\ ~first.threw
    /\ result' = first
    /\ dpc' = "returned"
    /\ UNCHANGED <<reqVars, funVars, pairVars, searchVars, sessVars, lib, detection, first, extracted, strategy, calls, response,
                   normVars, cleanVars>>

\* the upload route refuses a text longer than this (138)
MaxTextLength == 250000

\* what POST /api/upload answers for the result of parseDocument (128-167); the
\* test of 144 comes after !parseResult.text and never holds
Response(parseResult) ==
    IF ~parseResult.success \/ parseResult.text = <<>>
    THEN [status |-> 400,
          error |-> IF parseResult.error # <<>> THEN parseResult.error
                    ELSE <<"Nelze extrahovat text ze souboru">>]
    ELSE IF Len(parseResult.text) > MaxTextLength
    THEN [status |-> 400, error |-> <<"Soubor je prilis velky. Maximum je 100 stran textu.">>]
    ELSE [status |-> 200, error |-> <<>>]

\* the upload route answers; parseDocument throws nothing, so the catch of 169
\* is never entered
Respond ==
    /\ dpc = "returned"
    /\ response' = Response(result)
    /\ dpc' = "responded"
    /\ UNCHANGED <<reqVars, funVars, pairVars, searchVars, sessVars, lib, detection, first, extracted, strategy, result, calls,
                   normVars, cleanVars>>

Next ==
    \/ CallParseDocx
    \/ CallParsePdf
    \/ CallConvertPages
    \/ CallParseRtf
    \/ CallParseExcel
    \/ CallParseCsv
    \/ CallParseMarkdown
    \/ CallParseText
    \/ FallbackText
    \/ ReturnResult
    \/ Respond

Spec == Init /\ [][Next]_vars

(***************************************************************************)
(* Properties of Spec.                                                     *)
(***************************************************************************)

\* parseDocument has returned
Returned == dpc \in {"returned", "responded"}

\* the selected extractor has ended
Ended == dpc # "start"

\* the selected extractor failed: it threw or returned success: false
SelectedFailed == first.threw \/ ~first.success

\* the prefix of the messages of an extractor
PrefixOf(parser) ==
    CASE parser = "parseDocx" -> DocxPrefix
      [] parser = "parsePdf" -> PdfPrefix
      [] parser = "convertPagesToText" -> PagesPrefix
      [] parser = "parseRtf" -> RtfPrefix
      [] parser = "parseExcel" -> ExcelPrefix
      [] parser = "parseCsv" -> CsvPrefix
      [] parser = "parseMarkdown" -> MarkdownPrefix
      [] OTHER -> TextPrefix

\* C1: whenever the extractor selected by the extension throws or returns
\* success: false, parseDocument runs parseText on the same bytes and returns
\* the result of parseText.
C1_FallbackOnFailure ==
    Returned /\ calls[1] # "parseText" /\ SelectedFailed
        => /\ calls = <<calls[1], "parseText">>
           /\ \E d \in Detections : result = parseText(reqBytes, d)

\* mammoth threw on the bytes of the text "a" in a .docx file: the DOCX failure
\* was returned although parseText succeeds on these bytes
C1_Witness ==
    /\ Returned
    /\ calls = <<"parseDocx">>
    /\ reqBytes = <<97>>
    /\ lib[1].threw
    /\ result = Failure(DocxPrefix, LibraryMessage)
    /\ \A d \in Detections : parseText(reqBytes, d).success

\* C2: convertPagesToText never returns success: true with an empty text; when
\* the strategies and the cleanup leave no text it returns success: false or
\* throws.
C2_NoEmptySuccess ==
    Ended /\ calls[1] = "convertPagesToText" => ~(first.success /\ first.text = <<>>)

\* every strategy was tried, the raw scan found characters, the cleanup left
\* none of them and the call returned success: false
C2_Witness ==
    /\ Ended
    /\ calls[1] = "convertPagesToText"
    /\ strategy = "alternative"
    /\ extracted # <<>>
    /\ first.text = <<>>
    /\ ~first.threw
    /\ ~first.success

\* the entries of an archive with the name of a preview PDF, in archive order
PreviewEntries(entries) == SelectSeq(entries, LAMBDA e : IsPreviewName(e.entryName))

\* an entry from which pdf-parse gets a text that is not empty
HasPdfText(e) == e.readable /\ ~e.pdf.threw /\ e.pdf.text # <<>>

\* an index.xml entry from which strategy 2 gets a text that is not empty
HasIndexText(e) ==
    /\ e.entryName = <<"i","n","d","e","x",".","x","m","l">>
        \/ EndsWith(e.entryName, <<"/","i","n","d","e","x",".","x","m","l">>)
    /\ e.readable
    /\ (IF e.xml.threw THEN extractTextDirect(e.content)
        ELSE extractTextFromPagesXML(e.xml.obj)) # <<>>

\* convertPagesToText was called on an archive that holds an index.xml entry with a text
PagesWithIndexText ==
    /\ Ended
    /\ calls[1] = "convertPagesToText"
    /\ ~lib[1].threw
    /\ \E j \in 1..Len(lib[1].entries) : HasIndexText(lib[1].entries[j])

LibraryThrew == lib # <<>> /\ lib[1].threw

\* C4 as stated: no extractor, convertPagesToText included, ends with an
\* exception; each returns a result with success: false instead.
C4_NoExtractorThrows == Ended => ~first.threw

\* C4: the standard extractors never end with an exception and return a
\* result with success: false and a message when their library throws;
\* convertPagesToText ends with an exception when its library throws, the
\* message of which starts with its own prefix; parseDocument catches it and
\* returns a result.
C4_OnlyPagesRethrows ==
    /\ Ended /\ calls[1] # "convertPagesToText"
        => /\ ~first.threw
           /\ LibraryThrew => ~first.success /\ first.error = <<PrefixOf(calls[1]), LibraryMessage>>
    /\ Ended /\ calls[1] = "convertPagesToText"
        => /\ first.threw => first.error = <<PagesPrefix, LibraryMessage>>
           /\ lib[1].threw => first.threw
    /\ Returned => ~result.threw

\* pdf-parse threw inside parsePdf, and parsePdf returned a failure
C4_Witness ==
    /\ Ended
    /\ calls[1] = "parsePdf"
    /\ LibraryThrew
    /\ ~first.threw
    /\ first = Failure(PdfPrefix, LibraryMessage)

\* C5: when convertPagesToText ends with no text after all four strategies,
\* the result of parseDocument carries an error message that names the .pages
\* bundle.
C5_PagesFailureHasMessage ==
    /\ Returned
    /\ calls[1] = "convertPagesToText"
    /\ ~first.threw
    /\ strategy = "alternative"
    /\ first.text = <<>>
    => result.error # <<>> /\ result.error[1] = PagesPrefix

\* a .pages archive whose only entry is a binary document: no strategy found a
\* text, the result has no error property and the upload route answered with
\* its own message
C5_Witness ==
    /\ dpc = "responded"
    /\ calls = <<"convertPagesToText">>
    /\ Len(lib[1].entries) = 1
    /\ strategy = "alternative"
    /\ ~result.success
    /\ result.error = <<>>
    /\ response = [status |-> 400, error |-> <<"Nelze extrahovat text ze souboru">>]

\* C6: a standard extractor that returns success: true returns a text that
\* is not empty.
C6_SuccessHasText ==
    Ended /\ calls[1] # "convertPagesToText" /\ first.success => first.text # <<>>

\* a Markdown file that holds "# " only: parseMarkdown returned success: true
\* with an empty text
C6_Witness ==
    /\ Ended
    /\ calls = <<"parseMarkdown">>
    /\ reqBytes = <<35, 32>>
    /\ first.success
    /\ first.text = <<>>

C8_ErrorNamesSelectedFormat ==
    Returned /\ calls[1] # "parseText" /\ SelectedFailed /\ ~result.success
        => result.error # <<>> /\ result.error[1] = PrefixOf(calls[1])

\* a .pages file that holds a space: AdmZip threw, parseText took over and its
\* message about an empty text file was returned
C8_Witness ==
    /\ Returned
    /\ reqBytes = <<32>>
    /\ calls = <<"convertPagesToText", "parseText">>
    /\ first.error = <<PagesPrefix, LibraryMessage>>
    /\ result = Failure(TextPrefix, "Textovy soubor je prazdny")

\* C19: for a .pages bundle in which the preview PDF, index.xml and the gzip
\* entries give no text and the scan of the raw bytes gives one that is not
\* empty, convertPagesToText returns success: true with a text that is not
\* empty.
C19_RawScanSucceeds ==
    Ended /\ calls[1] = "convertPagesToText" /\ strategy = "alternative" /\ extracted # <<>>
        => first.success /\ first.text # <<>>

\* an archive without entries in a file whose bytes are "iwa": the scan handed
\* these three letters and a space to the cleanup, which kept none; success is
\* false
C19_Witness ==
    /\ Ended
    /\ calls[1] = "convertPagesToText"
    /\ reqBytes = <<105, 119, 97>>
    /\ lib[1].entries = <<>>
    /\ strategy = "alternative"
    /\ extracted = <<"i","w","a"," ">>
    /\ ~first.success
    /\ first.text = <<>>

\* a preview entry from which pdf-parse gets a text that is not blank
HasPreviewText(e) ==
    IsPreviewName(e.entryName) /\ e.readable /\ ~e.pdf.threw /\ ~IsBlank(e.pdf.text)

\* a gzip entry from which strategy 3 gets a text that is not empty
HasGzText(e) ==
    /\ EndsWith(e.entryName, <<".","g","z">>)
    /\ e.readable
    /\ ~e.gunzip.threw
    /\ Includes(e.gunzip.content, <<"<","?","x","m","l">>)
    /\ ~e.gunzip.xml.threw
    /\ extractTextFromPagesXML(e.gunzip.xml.obj) # <<>>

\* the archive holds no preview PDF with a text, an index.xml entry with a
\* text and a gzip entry with a text
IndexAndGzTexts(entries) ==
    /\ \A j \in 1..Len(entries) : ~HasPreviewText(entries[j])
    /\ \E j \in 1..Len(entries) : HasIndexText(entries[j])
    /\ \E j \in 1..Len(entries) : HasGzText(entries[j])

\* C20: for a bundle without a usable preview PDF that holds an index.xml
\* entry and a gzip XML entry that both give a text, the candidate text is the
\* one of index.xml, whatever the order of the entries in the archive.
C20_IndexBeforeGz ==
    PagesWithIndexText /\ IndexAndGzTexts(lib[1].entries) => strategy \in {"index", "direct"}

\* the gzip entry comes before index.xml in the archive: its text was taken
\* and index.xml was then left alone
C20_Witness ==
    /\ PagesWithIndexText
    /\ Len(lib[1].entries) = 2
    /\ HasGzText(lib[1].entries[1])
    /\ HasIndexText(lib[1].entries[2])
    /\ strategy = "gz"
    /\ extracted = extractTextFromPagesXML(lib[1].entries[1].gunzip.xml.obj)
    /\ first.success

(***************************************************************************)
(* SpecLive: Spec with every step of the route taken sooner or later: the  *)
(* awaited libraries settle and the event loop resumes the request, so the *)
(* request does not stay for ever where it can move on.                    *)
(***************************************************************************)

\* where the request is after its next step: the extractor has ended (1108-1139),
\* parseDocument has returned (1108-1147), the route has answered (128-167)
PcAfter(pc) ==
    CASE pc = "start" -> "called"
      [] pc = "called" -> "returned"
      [] pc = "returned" -> "responded"
      [] OTHER -> pc

\* the request moves on
Advance == dpc' = PcAfter(dpc)

SpecLive == Spec /\ WF_dpc(Advance)

\* every step of Spec moves the request on, and before the answer a step is
\* always possible
StepsAdvance == Advance /\ dpc # "responded"

\* the extractors called are the selected one and, after it threw, parseText
\* once; nothing is returned before parseDocument returns
OneFallback ==
    /\ Len(calls) <= 2
    /\ Ended => calls[1] = Parser(FileExt(reqName))
    /\ Len(calls) = 2 => first.threw /\ calls[2] = "parseText"
    /\ ~Returned => result = NoResult

\* a returned result is not replaced
ReturnsOnce == Returned => result' = result

\* C11: every call of parseDocument ends with exactly one result after
\* calling at most two extractors, the selected one and at most one plain-text
\* fallback, which is not called again.
C11_EndsAfterTwoCalls ==
    []OneFallback /\ [][ReturnsOnce /\ StepsAdvance]_vars /\ <>Returned

\* a .docx never ends with two calls; a .pages file whose archive could not be
\* opened ends with the text that parseText found
C11_Witness ==
    /\ dpc = "responded"
    /\ calls = <<"convertPagesToText", "parseText">>
    /\ LibraryThrew
    /\ result.success
    /\ response.status = 200

\* what the extractor called first returns for these bytes and for what the
\* libraries answered, in the words of 1108-1139
SelectedResult(parser, buffer, answers, detected) ==
    CASE parser = "parseDocx" -> parseDocx(answers[1])
      [] parser = "parsePdf" -> parsePdf(answers[1])
      [] parser = "convertPagesToText" -> convertPagesToText(buffer, answers[1]).result
      [] parser = "parseRtf" -> parseRtf(buffer, detected[1])
      [] parser = "parseExcel" -> parseExcel(answers[1])
      [] parser = "parseCsv" -> parseCsv(buffer, detected[1])
      [] parser = "parseMarkdown" -> parseMarkdown(buffer, detected[1])
      [] OTHER -> parseText(buffer, detected[1])

\* the file name ends in a dot and a supported extension, in any case
HasSupportedExtension(fileName) ==
    \E e \in SupportedExtensions : EndsWith(ToLowerCase(fileName), <<".">> \o e)

\* C13: a file whose name does not end in a supported extension, a name
\* without a dot included, is read by parseText and by no other extractor.
C13_UnknownIsText ==
    Ended /\ ~HasSupportedExtension(reqName) => \A x \in 1..Len(calls) : calls[x] = "parseText"

\* a file named pdf, without a dot, was given to parsePdf
C13_Witness ==
    /\ Ended
    /\ reqName = <<"p","d","f">>
    /\ calls[1] = "parsePdf"

\* C14: a successful result of parseDocument has a format name and a length
\* in its metadata, and the length is the number of characters of its text.
C14_LengthIsTextLength ==
    Returned /\ result.success => result.format # "none" /\ result.length = Len(result.text)

\* a .docx whose raw text is " a \n\nb": the text returned is trimmed to 5
\* characters and the length says 6
C14_Witness ==
    /\ Returned
    /\ calls = <<"parseDocx">>
    /\ result.success
    /\ Len(result.text) = 5
    /\ result.length = 6

\* a .pages file read from its index.xml: the metadata is an empty object
C14_NoMetadata ==
    /\ Returned
    /\ calls = <<"convertPagesToText">>
    /\ result.success
    /\ result.format = "none"

(***************************************************************************)
(* SpecFun: one call of detectAndDecodeText or of parseCsv on a buffer,    *)
(* with what the detector and the decoder do with it.                      *)
(***************************************************************************)

MaxCsvLen == 6

\* a, a comma, a line feed and a space as bytes
CsvBytes == {97, 44, 10, 32}

\* the answer of the detector for the buffers of CsvBytes
Utf8Detected == [threw |-> FALSE, encoding |-> <<"U","T","F","-","8">>, decodeThrew |-> FALSE]

MaxDocumentLen == 5

\* the characters of the documents chunkDocument is called on
DocumentChars == {"a", "b", ".", "!", " "}

\* the greatest maxChunkSize chunkDocument is called with
MaxChunkSize == 3

\* the greatest number of properties of the root of a parsed XML document
MaxXmlProps == 2

\* the property names of the parsed documents: two of textKeys, the sf of the
\* special case, and two that textKeys does not list ($ holds the attributes
\* of an element)
XmlKeys == {"p", "text", "sf", "$", "id"}

XmlLeaves == {XmlString(<<"x">>), XmlString(<<"y">>)}

\* what a property of the root holds: a string, an object with one string
\* property, or an array of two strings
XmlValues ==
    XmlLeaves
        \cup {XmlObject(<<[k |-> key, v |-> XmlString(<<"x">>)]>>) : key \in XmlKeys}
        \cup {XmlArray(<<XmlString(<<"x">>), XmlString(<<"y">>)>>)}

RECURSIVE XmlProps(_)
\* the lists of at most n properties with different names
XmlProps(n) ==
    IF n = 0 THEN {<<>>}
    ELSE XmlProps(n - 1) \cup
         {Append(ps, [k |-> key, v |-> value]) :
            ps \in {q \in XmlProps(n - 1) : Len(q) = n - 1}, key \in XmlKeys, value \in XmlValues}

DifferentNames(props) == \A i, j \in 1..Len(props) : i # j => props[i].k # props[j].k

\* the parsed documents
XmlTrees == {XmlObject(ps) : ps \in {q \in XmlProps(MaxXmlProps) : DifferentNames(q)}}

\* the greatest number of entries of the bundles whose bytes are scanned
MaxScanEntries == 1

\* new AdmZip(buffer) for them
ScanZipResults ==
    {[threw |-> TRUE, entries |-> <<>>]} \cup
    {[threw |-> FALSE, entries |-> a] : a \in Archives(MaxScanEntries)}

\* n bytes of the letter a followed by a b b as 16-bit little-endian code units
LettersThenPairs(n) == [i \in 1..n |-> 97] \o <<0, 98, 0, 98, 0, 0>>

\* the bundles whose bytes are scanned: the letters of the first one make 100
\* characters of pattern text, those of the second one 99
ScanBuffers ==
    {LettersThenPairs(BinaryScanBelow - 1), LettersThenPairs(BinaryScanBelow - 2),
     <<97, 0, 97, 0, 97>>, <<105, 119, 97>>}

\* the arguments of a call of the function named
FunArgs(name) ==
    IF name = "detectAndDecodeText"
    THEN {[buffer |-> b, detected |-> d] : b \in Buffers, d \in Detections}
    ELSE IF name = "parseCsv"
    THEN {[buffer |-> b, detected |-> Utf8Detected] : b \in Strings(CsvBytes, MaxCsvLen)}
    ELSE IF name = "extractTextFromPagesXML"
    THEN {[xmlObject |-> x] : x \in XmlTrees}
    ELSE IF name = "convertPagesToText"
    THEN {[buffer |-> b, zip |-> z] : b \in ScanBuffers, z \in ScanZipResults}
    ELSE {[text |-> t, maxChunkSize |-> m] : t \in Strings(DocumentChars, MaxDocumentLen),
                                            m \in 1..MaxChunkSize}

InitFun ==
    /\ fpc = "in"
    /\ fname \in {"detectAndDecodeText", "parseCsv", "chunkDocument", "extractTextFromPagesXML",
                "convertPagesToText"}
    /\ farg \in FunArgs(fname)
    /\ fret = <<>>
    /\ NormIdle
    /\ CleanIdle
    /\ DocIdle
    /\ PairIdle
    /\ SearchIdle
    /\ SessIdle

\* how a call ended: with the value returned, or with an exception
Returns(value) == [raised |-> FALSE, value |-> value]

Raises == [raised |-> TRUE, value |-> <<>>]

\* detectAndDecodeText without its catch: what the try block throws leaves it
DecodeEndUncaught(buffer, detected) ==
    IF detected.threw \/ detected.decodeThrew THEN Raises
    ELSE Returns(detectAndDecodeText(buffer, detected))

\* how detectAndDecodeText ends: buffer.toString of 800 throws nothing, so
\* nothing leaves the catch
DecodeEnd(buffer, detected) == Returns(detectAndDecodeText(buffer, detected))

\* a call of detectAndDecodeText (782-801)
CallDetectAndDecodeText ==
    /\ fpc = "in"
    /\ fname = "detectAndDecodeText"
    /\ fret' = DecodeEnd(farg.buffer, farg.detected)
    /\ fpc' = "out"
    /\ UNCHANGED <<fname, farg, normVars, cleanVars, reqVars, docVars, pairVars, searchVars, sessVars>>

\* a call of parseCsv (976-1019)
CallParseCsvAlone ==
    /\ fpc = "in"
    /\ fname = "parseCsv"
    /\ fret' = Returns(parseCsv(farg.buffer, farg.detected))
    /\ fpc' = "out"
    /\ UNCHANGED <<fname, farg, normVars, cleanVars, reqVars, docVars, pairVars, searchVars, sessVars>>

\* /[.!?]+/
ReSentenceEnds == <<Rep({".", "!", "?"}, 1, -1)>>

\* the body of the loop of chunkDocument for one sentence (1211-1219): a
\* sentence that does not fit ends the current chunk and starts the next one,
\* unless the current chunk is blank; a sentence that fits is added with a dot
ChunkStepOn(state, sentence, maxChunkSize) ==
    IF Len(state.currentChunk) + Len(sentence) > maxChunkSize
    THEN IF Len(Trim(state.currentChunk)) > 0
         THEN [chunks |-> Append(state.chunks, Trim(state.currentChunk)), currentChunk |-> sentence]
         ELSE state
    ELSE [chunks |-> state.chunks, currentChunk |-> state.currentChunk \o sentence \o <<".">>]

ChunkStep(state, sentence, maxChunkSize) ==
    Of(state, LAMBDA v : ChunkStepOn(v, sentence, maxChunkSize))

RECURSIVE ChunkLoop(_, _, _)
\* chunks and currentChunk after the first n sentences (1210-1220)
ChunkLoop(sentences, n, maxChunkSize) ==
    IF n = 0 THEN [chunks |-> <<>>, currentChunk |-> <<>>]
    ELSE ChunkStep(ChunkLoop(sentences, n - 1, maxChunkSize), sentences[n], maxChunkSize)

\* 1222-1226: what is left in currentChunk is the last chunk
ChunkEnd(state) ==
    IF Len(Trim(state.currentChunk)) > 0 THEN Append(state.chunks, Trim(state.currentChunk))
    ELSE state.chunks

ChunksOf(sentences, maxChunkSize) ==
    Of(ChunkLoop(sentences, Len(sentences), maxChunkSize), ChunkEnd)

\* chunkDocument (1205-1227)
chunkDocument(text, maxChunkSize) ==
    Of(Split(ReSentenceEnds, text), LAMBDA v : ChunksOf(v, maxChunkSize))

\* a call of chunkDocument
CallChunkDocument ==
    /\ fpc = "in"
    /\ fname = "chunkDocument"
    /\ fret' = Returns(chunkDocument(farg.text, farg.maxChunkSize))
    /\ fpc' = "out"
    /\ UNCHANGED <<fname, farg, normVars, cleanVars, reqVars, docVars, pairVars, searchVars, sessVars>>

\* a call of extractTextFromPagesXML (474-528)
CallExtractTextFromPagesXML ==
    /\ fpc = "in"
    /\ fname = "extractTextFromPagesXML"
    /\ fret' = Returns(extractTextFromPagesXML(farg.xmlObject))
    /\ fpc' = "out"
    /\ UNCHANGED <<fname, farg, normVars, cleanVars, reqVars, docVars, pairVars, searchVars, sessVars>>

\* a call of convertPagesToText (330-469)
CallConvertPagesAlone ==
    /\ fpc = "in"
    /\ fname = "convertPagesToText"
    /\ fret' = Returns(convertPagesToText(farg.buffer, farg.zip))
    /\ fpc' = "out"
    /\ UNCHANGED <<fname, farg, normVars, cleanVars, reqVars, docVars, pairVars, searchVars, sessVars>>

NextFun ==
    \/ CallConvertPagesAlone
    \/ CallDetectAndDecodeText
    \/ CallParseCsvAlone
    \/ CallChunkDocument
    \/ CallExtractTextFromPagesXML

SpecFun == InitFun /\ [][NextFun]_vars

\* the call of the function named has ended
Ran(name) == fpc = "out" /\ fname = name

\* the detector or the decoder threw
DecodingFailed == farg.detected.threw \/ farg.detected.decodeThrew

\* C15: detectAndDecodeText returns a string and raises nothing, whatever
\* the bytes and whatever the detector and the decoder do, either of them
\* throwing included; when one of them throws, the string is the bytes read
\* as UTF-8.
C15_DecodeIsTotal ==
    Ran("detectAndDecodeText") =>
        /\ ~fret.raised
        /\ fret.value \in Seq(STRING)
        /\ DecodingFailed => fret.value = DecodeUtf8(farg.buffer)

\* the byte 0xB9 was detected as windows-1250 and iconv.decode threw: the
\* replacement character of UTF-8 came back, not the a-ogonek of cp1250
C15_Witness ==
    /\ Ran("detectAndDecodeText")
    /\ farg.buffer = <<185>>
    /\ farg.detected.encoding = <<"w","i","n","d","o","w","s","-","1","2","5","0">>
    /\ farg.detected.decodeThrew
    /\ fret.value = <<"FFFD">>

\* the content that parseCsv decoded
CsvContent == DecodeUtf8(farg.buffer)

\* the lines of the content that hold more than whitespace, in their order
ContentLines == SelectSeq(Split(Literal(<<"\n">>), CsvContent), LAMBDA line : ~IsBlank(line))

\* the label of the line of number n among those lines
RowLabel(n) ==
    IF n = 1 THEN <<"Z","a1","h","l","a","v","i1",":"," ">>
    ELSE <<"R2","a1","d","e","k"," ">> \o NatChars(n - 1) \o <<":"," ">>

\* the columns of a line, joined
Columns(line) == Join(Split(Literal(<<",">>), line), <<" ","|"," ">>)

\* C18: for a content that is not blank, parseCsv drops the blank lines,
\* labels the first of the others as the header and the rest 1, 2, 3, ... in
\* their order, joins the columns of each line with " | " and the lines with a
\* line feed.
C18_RowsNumbered ==
    Ran("parseCsv") /\ ~IsBlank(CsvContent) =>
        /\ fret.value.success
        /\ Split(Literal(<<"\n">>), fret.value.text) =
                [n \in 1..Len(ContentLines) |-> RowLabel(n) \o Columns(ContentLines[n])]

\* "a,a", two line feeds and "a": the header has two columns and the line
\* after the blank one is row 1
C18_Witness ==
    /\ Ran("parseCsv")
    /\ farg.buffer = <<97, 44, 97, 10, 10, 97>>
    /\ fret.value.text = <<"Z","a1","h","l","a","v","i1",":"," ","a"," ","|"," ","a","\n",
                           "R2","a1","d","e","k"," ","1",":"," ","a">>

\* the sentences of the document chunkDocument was called on
Sentences == Split(ReSentenceEnds, farg.text)

\* the text s without its white space and without the characters that end a
\* sentence
Content(s) == SelectSeq(s, LAMBDA c : c \notin WhiteSpace \cup {".", "!", "?"})

\* C26: chunkDocument loses no content: every sentence of the text that is
\* not blank is in a returned chunk, and the chunks one after the other hold
\* what the text holds, in the same order and once.
C26_NoContentLost ==
    Ran("chunkDocument") =>
        /\ \A x \in 1..Len(Sentences) :
              ~IsBlank(Sentences[x]) =>
                  \E c \in 1..Len(fret.value) : Includes(fret.value[c], Trim(Sentences[x]))
        /\ Content(Flat(fret.value)) = Content(farg.text)

\* the first sentence, bb, is longer than maxChunkSize = 1 and no chunk is
\* open: it is in no chunk
C26_Witness ==
    /\ Ran("chunkDocument")
    /\ farg = [text |-> <<"b", "b", ".", "a">>, maxChunkSize |-> 1]
    /\ fret.value = << <<"a", ".">> >>

\* C27: every chunk chunkDocument returns is at most maxChunkSize long.
C27_ChunksWithinSize ==
    Ran("chunkDocument") =>
        \A c \in 1..Len(fret.value) : Len(fret.value[c]) <= farg.maxChunkSize

\* the sentence bbb follows a sentence that opened a chunk: it is a chunk of
\* its own, of three characters for maxChunkSize = 1
C27_Witness ==
    /\ Ran("chunkDocument")
    /\ farg = [text |-> <<"a", ".", "b", "b", "b">>, maxChunkSize |-> 1]
    /\ fret.value = << <<"a", ".">>, <<"b", "b", "b">> >>

RECURSIVE ListedLeaves(_, _)
\* the strings of the tree x that are under a name of textKeys, in the order
\* of the document; under says that x itself is under such a name
ListedLeaves(x, under) ==
    IF x.t = "str" THEN (IF under THEN <<x.s>> ELSE <<>>)
    ELSE IF x.t = "arr" THEN Flat([i \in 1..Len(x.v) |-> ListedLeaves(x.v[i], under)])
    ELSE IF x.t = "obj"
    THEN Flat([i \in 1..Len(x.v) |-> ListedLeaves(x.v[i].v, under \/ IsTextKey(x.v[i].k))])
    ELSE <<>>

\* how many times each string is in the list
Counted(strings) ==
    [w \in {strings[i] : i \in 1..Len(strings)} |->
        Cardinality({i \in 1..Len(strings) : strings[i] = w})]

\* the fragments of the returned text: what single spaces separate
Fragments(text) == SelectSeq(Split(Literal(<<" ">>), text), LAMBDA w : w # <<>>)

\* C23: extractTextFromPagesXML returns the strings of the tree that are
\* under a name of its allow-list, each once and followed by one space, and
\* no string that is under no such name.
C23_ListedLeavesOnly ==
    Ran("extractTextFromPagesXML") =>
        /\ Counted(Fragments(fret.value)) = Counted(ListedLeaves(farg.xmlObject, FALSE))
        /\ Len(fret.value) = 2 * Len(ListedLeaves(farg.xmlObject, FALSE))

\* the attribute id = "x" of an element, which xml2js puts under $, is
\* returned as text next to the paragraph y
C23_Witness ==
    /\ Ran("extractTextFromPagesXML")
    /\ farg.xmlObject = XmlObject(<<[k |-> "$", v |-> XmlObject(<<[k |-> "id", v |-> XmlString(<<"x">>)]>>)],
                                    [k |-> "p", v |-> XmlString(<<"y">>)]>>)
    /\ fret.value = <<"y", " ", "x", " ">>

\* the string of sf.text is returned twice
C23_SfTextTwice ==
    /\ Ran("extractTextFromPagesXML")
    /\ farg.xmlObject = XmlObject(<<[k |-> "sf", v |-> XmlObject(<<[k |-> "text", v |-> XmlString(<<"x">>)]>>)]>>)
    /\ fret.value = <<"x", " ", "x", " ">>

\* extractedText as strategies 1 to 3 leave it (448)
StrategiesText ==
    EntriesLoop(farg.zip.entries, 1, AfterPreview(PreviewPdfText(farg.zip.entries))).text

\* what the script patterns match in the bytes of the bundle (569-574)
ScriptMatches == PatternText(DecodeUtf8(farg.buffer))

\* C22: in a call of convertPagesToText that throws nothing, the raw bytes
\* are scanned if and only if strategies 1 to 3 left the text empty; the scan
\* for 16-bit little-endian printable ASCII runs if and only if the script
\* patterns made fewer than 100 characters, and what it recovers comes behind
\* the pattern matches.
C22_ScansWhenNoText ==
    Ran("convertPagesToText") /\ ~fret.value.result.threw =>
        /\ fret.value.strategy = "alternative" <=> StrategiesText = <<>>
        /\ fret.value.strategy = "alternative" =>
              fret.value.extracted =
                  IF Len(ScriptMatches) < 100 THEN ScriptMatches \o Utf16Text(farg.buffer)
                  ELSE ScriptMatches

\* an archive without entries in 99 letters followed by 16-bit code units:
\* the letters and the space behind them make 100 characters, and the code
\* units were not read
C22_Witness ==
    /\ Ran("convertPagesToText")
    /\ farg.buffer = LettersThenPairs(99)
    /\ farg.zip = [threw |-> FALSE, entries |-> <<>>]
    /\ fret.value.strategy = "alternative"
    /\ fret.value.extracted = [i \in 1..99 |-> "a"] \o <<" ">>
    /\ Utf16Text(farg.buffer) = <<"a", "b", "b", "b">>

(***************************************************************************)
(* SpecSearch: searchInDocument (1375-1441) on a document cut into chunks. *)
(* A step is what runs between two awaits: a call of messages.create with  *)
(* what follows its settling, or the end of the pause between two chunks.  *)
(***************************************************************************)

MaxChunks == 3

\* the lengths a chunk has here
ChunkLengths == {30, 60}

RECURSIVE Chunkings(_)
\* the documents of at most n chunks, as the lengths of their chunks
Chunkings(n) ==
    IF n = 0 THEN {<<>>}
    ELSE Chunkings(n - 1) \cup
         {Append(c, l) : c \in {d \in Chunkings(n - 1) : Len(d) = n - 1}, l \in ChunkLengths}

\* how a call of messages.create ends for the loop: it rejects; the reply holds
\* no JSON object; its JSON does not parse; the JSON has no results array; it
\* has one
ApiOutcomes == {"rejected", "nojson", "badjson", "noresults", "results"}

\* retries = 3 of callClaudeWithRetry (1481), which nothing calls
Retries == 3

\* Math.pow(2, attempt) * 1000 (1499)
BackoffDelay(attempt) == (2 ^ attempt) * 1000

\* the pause between two chunks (1432)
PauseDelay == 500

InitSearch ==
    /\ spc = "create"
    /\ chunks \in Chunkings(MaxChunks)
    /\ chunk = 0
    /\ positionOffset = 0
    /\ attempts = [c \in 1..Len(chunks) |-> 0]
    /\ outcomes = [c \in 1..Len(chunks) |-> "none"]
    /\ allResults = <<>>
    /\ delays = <<>>
    /\ sortedResults = <<>>
    /\ NormIdle
    /\ CleanIdle
    /\ DocIdle
    /\ FunIdle
    /\ PairIdle
    /\ SessIdle

\* where in its chunk a result of the reply says the match is; nothing holds
\* the position a reply gives below the length of the chunk
ReplyPositions == {0, 80}

\* the match texts of the results of a reply; a result may have none
ReplyMatches == {<<>>, <<"a">>, <<" ", "A">>}

\* the results array of a reply holds one result here
Replies == {[position |-> p, match |-> m] : p \in ReplyPositions, m \in ReplyMatches}

\* a result of the reply as 1417-1421 add it
ResultOfChunk(reply) ==
    [position |-> reply.position + positionOffset, chunkIndex |-> chunk + 1, match |-> reply.match]

\* result.match && existing.match && the lower-cased trimmed texts are equal (1466-1467)
MatchSimilarity(res, existing) ==
    /\ Len(res.match) > 0
    /\ Len(existing.match) > 0
    /\ Trim(ToLowerCase(res.match)) = Trim(ToLowerCase(existing.match))

\* Math.abs(position difference) < 50 (1469)
SimilarPositionBelow == 50

PositionSimilarity(res, existing) ==
    /\ res.position - existing.position < SimilarPositionBelow
    /\ existing.position - res.position < SimilarPositionBelow

\* the mutant of IsDuplicate that compares the match texts only
IsDuplicateByMatch(res, existing) == MatchSimilarity(res, existing)

\* the callback of unique.some (1464-1472)
IsDuplicate(res, existing) == MatchSimilarity(res, existing) \/ PositionSimilarity(res, existing)

RECURSIVE removeDuplicates(_)
\* removeDuplicates (1459-1478): a result is pushed unless one pushed before it
\* is its duplicate
removeDuplicates(results) ==
    IF Len(results) = 0 THEN <<>>
    ELSE IF \E k \in 1..Len(removeDuplicates(SubSeq(results, 1, Len(results) - 1))) :
                IsDuplicate(results[Len(results)],
                            removeDuplicates(SubSeq(results, 1, Len(results) - 1))[k])
         THEN removeDuplicates(SubSeq(results, 1, Len(results) - 1))
         ELSE Append(removeDuplicates(SubSeq(results, 1, Len(results) - 1)), results[Len(results)])

\* the list s with x put at place k + 1
InsertAfter(s, k, x) == SubSeq(s, 1, k) \o <<x>> \o SubSeq(s, k + 1, Len(s))

\* x put into the sorted list s behind the elements that are not greater
Inserted(s, x) == InsertAfter(s, Cardinality({k \in 1..Len(s) : s[k].position <= x.position}), x)

RECURSIVE SortByPosition(_)
\* Array.prototype.sort with (a, b) => a.position - b.position (1445): stable
SortByPosition(results) ==
    IF Len(results) = 0 THEN <<>>
    ELSE Inserted(SortByPosition(SubSeq(results, 1, Len(results) - 1)), results[Len(results)])

\* positionOffset += chunk.length and i++ (1440, 1381)
NextChunk ==
    /\ positionOffset' = positionOffset + chunks[chunk + 1]
    /\ chunk' = chunk + 1

\* 1381-1440 for chunk i up to the next await: messages.create is called once;
\* a reply without usable JSON leaves the iteration by continue (1405, 1410),
\* a rejection is logged by the catch of 1435, and a parsed reply is followed
\* by the pause when a chunk is left
CreateMessage ==
    /\ spc = "create"
    /\ chunk < Len(chunks)
    /\ attempts' = [attempts EXCEPT ![chunk + 1] = @ + 1]
    /\ \E o \in ApiOutcomes :
        /\ outcomes' = [outcomes EXCEPT ![chunk + 1] = o]
        /\ IF o = "results"
           THEN \E reply \in Replies : allResults' = Append(allResults, ResultOfChunk(reply))
           ELSE allResults' = allResults
        /\ IF o \in {"nojson", "badjson"}
           THEN chunk' = chunk + 1 /\ UNCHANGED <<spc, positionOffset>>
           ELSE IF o = "rejected" \/ chunk + 1 = Len(chunks)
           THEN NextChunk /\ UNCHANGED spc
           ELSE spc' = "pause" /\ UNCHANGED <<chunk, positionOffset>>
    /\ UNCHANGED <<chunks, delays, sortedResults,
                   normVars, cleanVars, reqVars, docVars, funVars, pairVars, sessVars>>

\* the timeout of 1432 has passed
Pause ==
    /\ spc = "pause"
    /\ delays' = Append(delays, PauseDelay)
    /\ NextChunk
    /\ spc' = "create"
    /\ UNCHANGED <<chunks, attempts, outcomes, allResults, sortedResults,
                   normVars, cleanVars, reqVars, docVars, funVars, pairVars, sessVars>>

\* the loop has ended and searchInDocument returns the results without the
\* duplicates, sorted (1443-1449)
ReturnResults ==
    /\ spc = "create"
    /\ chunk = Len(chunks)
    /\ spc' = "done"
    /\ sortedResults' = <<SortByPosition(removeDuplicates(allResults))>>
    /\ UNCHANGED <<chunks, chunk, positionOffset, attempts, outcomes, allResults, delays,
                   normVars, cleanVars, reqVars, docVars, funVars, pairVars, sessVars>>

NextSearch == CreateMessage \/ Pause \/ ReturnResults

SpecSearch == InitSearch /\ [][NextSearch]_vars

\* the loop has left chunk number c, counted from 1
GivenUp(c) == chunk >= c /\ spc # "pause"

\* C17: when the call of the Claude API for a chunk fails, it is made again,
\* up to 3 attempts with exponentially growing delays between them, before the
\* chunk is given up.
C17_FailedCallRetried ==
    \A c \in 1..Len(chunks) :
        GivenUp(c) /\ outcomes[c] = "rejected" =>
            /\ attempts[c] = Retries
            /\ \A a \in 1..(Retries - 1) : \E k \in 1..Len(delays) : delays[k] = BackoffDelay(a)

\* a document of one chunk whose only call was rejected: the search ended after
\* that one attempt and waited for nothing
C17_Witness ==
    /\ spc = "done"
    /\ chunks = <<30>>
    /\ outcomes = <<"rejected">>
    /\ attempts = <<1>>
    /\ delays = <<>>
    /\ allResults = <<>>

RECURSIVE LengthBefore(_)
\* the sum of the lengths of the chunks before chunk number c, counted from 1
LengthBefore(c) == IF c <= 1 THEN 0 ELSE LengthBefore(c - 1) + chunks[c - 1]

\* C25: while chunk i is worked on, the offset added to the positions of its
\* results is the sum of the lengths of the chunks before it, however the
\* earlier chunks ended.
C25_OffsetIsLengthBefore ==
    chunk < Len(chunks) => positionOffset = LengthBefore(chunk + 1)

\* the reply for the first chunk, of 30 characters, held no JSON; the match
\* found at the start of the second chunk was added with position 0
C25_Witness ==
    /\ chunks = <<30, 60>>
    /\ outcomes = <<"nojson", "results">>
    /\ allResults = <<[position |-> 0, chunkIndex |-> 2, match |-> <<"a">>]>>
    /\ spc = "done"

\* the list searchInDocument returned
ReturnedResults == sortedResults[1]

\* the match texts of two results are equal once lower-cased and trimmed
SameMatchText(a, b) == Trim(ToLowerCase(a.match)) = Trim(ToLowerCase(b.match))

\* the positions of two results are less than 50 apart
Near(a, b) == a.position - b.position < 50 /\ b.position - a.position < 50

\* every chunk was queried, once and in order, whatever the earlier ones did
EveryChunkQueried ==
    /\ \A c \in 1..Len(chunks) : attempts[c] = 1
    /\ \A j, k \in 1..Len(allResults) : j < k => allResults[j].chunkIndex < allResults[k].chunkIndex

\* the result of every chunk answered with results is returned, or a returned
\* result stands for it
SuccessfulReturned ==
    /\ \A c \in 1..Len(chunks) :
          outcomes[c] = "results" <=> \E k \in 1..Len(allResults) : allResults[k].chunkIndex = c
    /\ \A k \in 1..Len(allResults) :
          \E j \in 1..Len(ReturnedResults) :
              \/ ReturnedResults[j] = allResults[k]
              \/ Near(ReturnedResults[j], allResults[k])
              \/ SameMatchText(ReturnedResults[j], allResults[k])
    /\ \A j \in 1..Len(ReturnedResults) : \E k \in 1..Len(allResults) : ReturnedResults[j] = allResults[k]

\* the returned list is in ascending order of position
SortedByPosition ==
    \A j, k \in 1..Len(ReturnedResults) : j < k => ReturnedResults[j].position <= ReturnedResults[k].position

PairNames == {<<"a",".","t","x","t">>, <<"a",".","p","a","g","e","s">>}

PairBuffers == {<<97>>, <<185>>}

\* the detector throws, or answers windows-1250 or UTF-8
PairDetections ==
    {d \in Detections :
        /\ ~d.decodeThrew
        /\ d.encoding \in {<<>>, <<"w","i","n","d","o","w","s","-","1","2","5","0">>}}

\* AdmZip throws, or the archive is empty or holds an index.xml with a text
PairZipResults ==
    {[threw |-> TRUE, entries |-> <<>>], [threw |-> FALSE, entries |-> <<>>]} \cup
    {[threw |-> FALSE, entries |-> <<e>>] : e \in {x \in EntryVariants : HasIndexText(x)}}

\* the switch consulting the declared type before the extension
ParserForDeclared(fileName, mimeType) ==
    IF mimeType = "application/pdf" THEN "parsePdf" ELSE Parser(FileExt(fileName))

\* the extractor that the switch of 1107-1139 selects; mimeType is only logged
\* (1103)
ParserFor(fileName, mimeType) == Parser(FileExt(fileName))

\* what the libraries can answer to an extractor: the answer of its decoding
\* library, or what the detector did
AnswersFor(parser, buffer) ==
    IF parser \in {"parseDocx", "parsePdf"}
    THEN {[lib |-> <<r>>, detected |-> <<>>] : r \in TextResults(buffer)}
    ELSE IF parser = "convertPagesToText"
    THEN {[lib |-> <<z>>, detected |-> <<>>] : z \in PairZipResults}
    ELSE {[lib |-> <<>>, detected |-> <<d>>] : d \in PairDetections}

\* a call that was made and has not run yet
NewCall(fileName, mimeType, buffer) ==
    [fileName |-> fileName, mimeType |-> mimeType, buffer |-> buffer, pc |-> "start",
     overlapped |-> FALSE, calls |-> <<>>, lib |-> <<>>, detected |-> <<>>,
     first |-> NoResult, result |-> NoResult]

InitPair ==
    /\ pair \in [1..2 -> {NewCall(n, m, b) : n \in PairNames, m \in MimeTypes, b \in PairBuffers}]
    /\ NormIdle
    /\ CleanIdle
    /\ DocIdle
    /\ FunIdle
    /\ SearchIdle
    /\ SessIdle

\* the other call
Other(i) == 3 - i

\* a call that has begun and not returned
InFlight(call) == call.pc \in {"awaiting", "called"}

\* the buffer a call works on is the one of the other call
BufferOfOther(i) == pair[Other(i)].buffer

\* the buffer a call works on: its parameter (1100)
BufferOf(i) == pair[i].buffer

\* 1101-1139 up to the await: the extractor is selected and called
Begin(i) ==
    /\ pair[i].pc = "start"
    /\ pair' = [pair EXCEPT ![i].pc = "awaiting",
                            ![i].overlapped = InFlight(pair[Other(i)]),
                            ![i].calls = <<ParserFor(pair[i].fileName, pair[i].mimeType)>>]
    /\ UNCHANGED <<normVars, cleanVars, reqVars, docVars, funVars, searchVars, sessVars>>

\* the library settles and the extractor ends
Settle(i) ==
    /\ pair[i].pc = "awaiting"
    /\ \E a \in AnswersFor(pair[i].calls[1], BufferOf(i)) :
            pair' = [pair EXCEPT ![i].pc = "called",
                                 ![i].lib = a.lib,
                                 ![i].detected = a.detected,
                                 ![i].first = SelectedResult(pair[i].calls[1], BufferOf(i),
                                                             a.lib, a.detected)]
    /\ UNCHANGED <<normVars, cleanVars, reqVars, docVars, funVars, searchVars, sessVars>>

\* 1141-1147: the extractor threw and parseText is called
Fallback(i) ==
    /\ pair[i].pc = "called"
    /\ pair[i].first.threw
    /\ \E d \in PairDetections :
            pair' = [pair EXCEPT ![i].pc = "returned",
                                 ![i].detected = <<d>>,
                                 ![i].calls = Append(@, "parseText"),
                                 ![i].result = parseText(BufferOf(i), d)]
    /\ UNCHANGED <<normVars, cleanVars, reqVars, docVars, funVars, searchVars, sessVars>>

\* return await ...
Return(i) ==
    /\ pair[i].pc = "called"
    /\ ~pair[i].first.threw
    /\ pair' = [pair EXCEPT ![i].pc = "returned", ![i].result = pair[i].first]
    /\ UNCHANGED <<normVars, cleanVars, reqVars, docVars, funVars, searchVars, sessVars>>

NextPair == \E i \in 1..2 : Begin(i) \/ Settle(i) \/ Fallback(i) \/ Return(i)

SpecPair == InitPair /\ [][NextPair]_vars

\* the two calls have the same bytes and file name and two MIME types
SameFileTwoTypes ==
    /\ pair[1].fileName = pair[2].fileName
    /\ pair[1].buffer = pair[2].buffer
    /\ pair[1].mimeType # pair[2].mimeType

\* the libraries answered the same to both calls
SameAnswers == pair[1].lib = pair[2].lib /\ pair[1].detected = pair[2].detected

\* C12: the declared MIME type has no part in the extraction: two calls of
\* parseDocument with the same bytes and the same file name and two MIME types
\* select the same extractor, the one of the lower-cased text after the last
\* dot of the file name, and return the same result.
C12_MimeTypeIgnored ==
    SameFileTwoTypes =>
        /\ \A i \in 1..2 : pair[i].pc # "start" =>
                pair[i].calls[1] = Parser(FileExt(pair[i].fileName))
        /\ pair[1].pc = "returned" /\ pair[2].pc = "returned" /\ SameAnswers =>
                pair[1].calls = pair[2].calls /\ pair[1].result = pair[2].result

\* a.txt with the byte 0xB9 was sent as application/pdf and as text/plain; the
\* detector answered windows-1250 to both calls and both returned the a-ogonek
C12_Witness ==
    /\ SameFileTwoTypes
    /\ SameAnswers
    /\ pair[1].mimeType = "application/pdf"
    /\ pair[1].fileName = <<"a",".","t","x","t">>
    /\ pair[1].pc = "returned"
    /\ pair[2].pc = "returned"
    /\ pair[1].calls = <<"parseText">>
    /\ pair[1].result.text = <<"a4">>
    /\ pair[2].result.text = <<"a4">>

\* 1108-1147 for a call whose selected extractor ended with `selected`
ResultAfter(call, selected) ==
    IF selected.threw THEN parseText(call.buffer, call.detected[1]) ELSE selected

\* what a call with these arguments returns when it runs alone and the
\* libraries answer this
Alone(call) ==
    ResultAfter(call, SelectedResult(Parser(FileExt(call.fileName)), call.buffer,
                                     call.lib, call.detected))

MaxNormLen == 5

NormAlphabet == {"a", " ", ",", "."}

InitNorm ==
    /\ npc = "in"
    /\ nin \in Strings(NormAlphabet, MaxNormLen)
    /\ nout = <<>>
    /\ nout2 = <<>>
    /\ CleanIdle
    /\ DocIdle
    /\ FunIdle
    /\ PairIdle
    /\ SearchIdle
    /\ SessIdle

NormOnce ==
    /\ npc = "in"
    /\ nout' = FinalCleanup(nin)
    /\ npc' = "once"
    /\ UNCHANGED <<nin, nout2, cleanVars, reqVars, funVars, pairVars, searchVars, sessVars, docVars>>

NormTwice ==
    /\ npc = "once"
    /\ nout2' = FinalCleanup(nout)
    /\ npc' = "twice"
    /\ UNCHANGED <<nin, nout, cleanVars, reqVars, funVars, pairVars, searchVars, sessVars, docVars>>

NextNorm == NormOnce \/ NormTwice

SpecNorm == InitNorm /\ [][NextNorm]_vars

\* C10: the final whitespace/punctuation cleanup is idempotent: applying it
\* to its own result changes nothing (N(N(s)) = N(s) for every string s).
C10_Idempotent == npc = "twice" => nout2 = nout

\* a string with a space before a comma was cleaned, changed by the cleanup, and cleaned again
C10_Witness ==
    /\ npc = "twice"
    /\ nout # nin
    /\ \E i \in 1..(Len(nin) - 1) : nin[i] = " " /\ nin[i + 1] = ","
    /\ \E i \in 1..Len(nout) : nout[i] = ","

(***************************************************************************)
(* SpecClean: cleanExtractedText applied to candidate texts.               *)
(***************************************************************************)

\* the pieces the candidate texts are made of: Czech-looking words, words with
\* punctuation, a short word, metadata words, two domain phrases, a keyword
\* of the loose patterns and a word with a control character
CleanFragments ==
    {<<"a","a","a">>,
     <<"a","a","a"," ",",","b","b","b">>,
     <<"a","a","a",".">>,
     <<"a","b">>,
     <<"A","B","C">>,
     <<"i","w","a">>,
     <<"P","r","o","t","o","k","o","l"," ","o"," "," ","s","t","a","v","u"," ","v","y1","s","t","a","v","b","y">>,
     <<"C2","e","s","k","a1"," ","s","p","o","r2","i","t","e","l","n","a"," ",",","a",".","s","."," ","2","0","2","4">>,
     <<"b","a","n","k","a",",">>,
     <<"a","a","a","^A">>}

MaxFragments == 2

RECURSIVE FragmentTexts(_)
\* the texts of at most n fragments, joined by single spaces
FragmentTexts(n) ==
    IF n = 0 THEN {<<>>}
    ELSE LET shorter == FragmentTexts(n - 1)
         IN  shorter \cup CleanFragments
                \cup {t \o <<" ">> \o f : t \in shorter \ {<<>>}, f \in CleanFragments}

InitClean ==
    /\ cpc = "in"
    /\ cin \in FragmentTexts(MaxFragments)
    /\ cout = <<>>
    /\ cpath = "none"
    /\ NormIdle
    /\ DocIdle
    /\ FunIdle
    /\ PairIdle
    /\ SearchIdle
    /\ SessIdle

CallClean ==
    /\ cpc = "in"
    /\ \E r \in {CleanExtracted(cin)} : cout' = r.text /\ cpath' = r.path
    /\ cpc' = "done"
    /\ UNCHANGED <<cin, normVars, reqVars, funVars, pairVars, searchVars, sessVars, docVars>>

NextClean == CallClean

SpecClean == InitClean /\ [][NextClean]_vars

\* a text with single spaces only, none before a punctuation mark and one after
\* each mark that does not end the text
Normalised(t) ==
    /\ \A i \in 1..(Len(t) - 1) : ~(t[i] \in WhiteSpace /\ t[i + 1] \in WhiteSpace)
    /\ \A i \in 1..(Len(t) - 1) : t[i + 1] \in Punct => t[i] \notin WhiteSpace
    /\ \A i \in 1..(Len(t) - 1) : t[i] \in Punct => t[i + 1] = " "

\* C9: whichever path the cleanup takes, the text it returns has no run of two
\* or more whitespace characters, no whitespace before , . ; : ! ? and exactly
\* one space after each of them that does not end the text.
C9_AlwaysNormalised == cpc = "done" => Normalised(cout)

\* the text "aaa ,bbb aaa" took the return of the word runs and came back
\* unchanged, with a space before its comma and none after it
C9_Witness ==
    /\ cpc = "done"
    /\ cpath = "runs"
    /\ cin = <<"a","a","a"," ",",","b","b","b"," ","a","a","a">>
    /\ cout = cin

\* the runs the word loop kept for the candidate text (646-688)
KeptRuns == WordRuns(Split(ReSpaces, cin), 1, <<>>, 0, <<>>)

\* what the word step leaves in cleanText at 714
WordStepText == Trim(Join(SentencesOf(cin), <<" ">>))

\* the first 100 words of three or more Czech letters of the whole candidate
\* text that are not on the deny-list of the last resort, joined by spaces
FirstLastResortWords ==
    Join(Slice(SelectSeq(Matches(ReCzechWord, cin), LAMBDA w : ~Test(ReLastResortWord, w)),
               LastResortWordCount),
         <<" ">>)

\* C21: when no domain phrase matches and the word step yields fewer than 100
\* characters, an empty text or not, cleanExtractedText returns the last
\* resort: the first 100 words of Czech letters of the whole candidate text
\* that are not deny-listed, through the final cleanup.
C21_ShortTextFallsBack ==
    /\ cpc = "done"
    /\ cin # <<>>
    /\ PhrasesOf(CzechTextPatterns, cin, MinPhraseLen) = <<>>
    /\ Len(WordStepText) < LastResortBelow
    => /\ cpath = "final"
       /\ cout = FinalCleanup(FirstLastResortWords)

\* the word step made the 13 characters "aaa ,bbb aaa." of the text, and they
\* were returned at 733 instead of the words aaa bbb aaa of the last resort
C21_Witness ==
    /\ cpc = "done"
    /\ cin = <<"a","a","a"," ",",","b","b","b"," ","a","a","a",".">>
    /\ cpath = "runs"
    /\ cout = cin
    /\ FirstLastResortWords = <<"a","a","a"," ","b","b","b"," ","a","a","a">>

\* the tokens of a kept run
RunTokens(run) == Split(Literal(<<" ">>), run)

\* how many of the first n tokens are Czech words
CzechWordsAmong(tokens, n) == Cardinality({x \in 1..n : Test(ReCzechWord, tokens[x])})

\* a token the loop drops: three or more capitals only, a character outside
\* the expected alphabets, or a deny-listed word
IsDropped(token) ==
    \/ Len(token) >= 3 /\ \A x \in 1..Len(token) : token[x] \in AsciiUpper
    \/ \E x \in 1..Len(token) : token[x] \notin Printable
    \/ \E w \in 1..Len(SkipWords) : ToLowerCase(token) = ToLowerCase(SkipWords[w])

\* every kept run holds three Czech words or more and no dropped token
RunsOfCzechWords ==
    \A r \in 1..Len(KeptRuns) :
        /\ CzechWordsAmong(RunTokens(KeptRuns[r]), Len(RunTokens(KeptRuns[r]))) >= MinCzechWords
        /\ \A x \in 1..Len(RunTokens(KeptRuns[r])) : ~IsDropped(RunTokens(KeptRuns[r])[x])

\* the kept runs are what the return of 733 cleans
RunsReturned ==
    KeptRuns # <<>> => cpath = "runs" /\ cout = CleanRuns(Trim(Join(KeptRuns, <<" ">>)))

Handlers == {1, 2}

\* the searches the client makes
MaxSearches == 22

\* the requests that arrive while another one is awaiting
MaxOverlaps == 1

\* the search history keeps the last 20 entries (214-215)
MaxHistory == 20

\* a handler that handles nothing
NoRequest == [route |-> "none", session |-> NewSession, query |-> <<>>]

\* the lengths of the texts parseDocument extracts; a text is known here by
\* its length
TextLengths == {0, MaxTextLength, MaxTextLength + 1}

\* what parseDocument resolves with: { success: false, error, text: null } or
\* { success: true, text, metadata }; it throws nothing
ParseResults ==
    {[success |-> FALSE, textNull |-> TRUE, length |-> 0]}
        \cup {[success |-> TRUE, textNull |-> FALSE, length |-> n] : n \in TextLengths}

\* the tests of 128-148 without the one of the length
UploadStatusAnyLength(parseResult) ==
    IF ~parseResult.success \/ parseResult.textNull \/ parseResult.length = 0 THEN 400
    ELSE 200

\* the tests of 128-148 on the result of parseDocument: 200 when the text goes
\* on to the session
UploadStatus(parseResult) ==
    IF ~parseResult.success \/ parseResult.textNull \/ parseResult.length = 0 THEN 400
    ELSE IF parseResult.length > MaxTextLength THEN 400
    ELSE 200

\* { originalName, text, uploadTime, size: text.length } (151-156); the name and
\* the time are read by GET /api/session/status only
UploadedFile(parseResult) ==
    [text |-> [length |-> parseResult.length], size |-> parseResult.length]

\* req.body.query: missing, a string, or a number other than 0
NoQuery == [type |-> "undefined", chars |-> <<>>]

QueryString(chars) == [type |-> "string", chars |-> chars]

QueryNumber == [type |-> "number", chars |-> <<>>]

Queries ==
    {NoQuery, QueryNumber}
        \cup {QueryString(chars) : chars \in {<<>>, <<" ">>, <<"a">>, <<" ", "a", " ">>}}

\* the tests of 180-192 before searchInDocument is called: the status of the
\* response they send, 0 when they send none; a query with no trim method
\* throws at 182 and the catch of 226 answers
SearchStatus(query, sess) ==
    IF query.type = "undefined" \/ (query.type = "string" /\ query.chars = <<>>) THEN 400
    ELSE IF query.type # "string" THEN 500
    ELSE IF Trim(query.chars) = <<>> THEN 400
    ELSE IF sess.uploadedFile = <<>> THEN 400
    ELSE 0

\* how many results searchInDocument returns
ResultCounts == {1}

\* req.session.searchHistory, [] when there is none (203-205)
HistoryOf(sess) == IF sess.searchHistory = <<>> THEN <<>> ELSE sess.searchHistory[1]

\* { query, timestamp: new Date(), resultCount } (207-211)
HistoryEntry(searchQuery, time, resultCount) ==
    [query |-> searchQuery, timestamp |-> time, resultCount |-> resultCount]

\* searchHistory.slice(-n)
LastOf(history, n) ==
    SubSeq(history, IF Len(history) > n THEN Len(history) - n + 1 ELSE 1, Len(history))

\* the history after the push: cut to its last 20 entries when it holds more (214-216)
Limited(history) ==
    IF Len(history) > MaxHistory THEN LastOf(history, MaxHistory) ELSE history

\* 203-216: the entry is pushed to the history of req.session
WithEntry(sess, entry) ==
    [sess EXCEPT !.searchHistory = <<Limited(Append(HistoryOf(sess), entry))>>]

Busy(i) == handling[i].route # "none"

\* the handler a request that arrives is given: the first that awaits nothing
Free(i) == ~Busy(i) /\ \A j \in Handlers : j < i => Busy(j)

SomeBusy == \E i \in Handlers : Busy(i)

\* the searches being awaited
Searching == Cardinality({i \in Handlers : handling[i].route = "search"})

\* a request arrives: it overlaps when a handler is awaiting
Arrives ==
    /\ SomeBusy => overlaps < MaxOverlaps
    /\ overlaps' = IF SomeBusy THEN overlaps + 1 ELSE overlaps

InitSession ==
    /\ session = NewSession
    /\ handling = [i \in Handlers |-> NoRequest]
    /\ clock = 0
    /\ cleared = 0
    /\ overlaps = 0
    /\ answer = NoAnswer
    /\ NormIdle
    /\ CleanIdle
    /\ DocIdle
    /\ FunIdle
    /\ PairIdle
    /\ SearchIdle

\* POST /api/upload with no file: 400 at 113-117
UploadRefused ==
    /\ answer' = [route |-> "upload", status |-> 400]
    /\ UNCHANGED <<session, handling, clock, cleared, overlaps,
                   normVars, cleanVars, reqVars, docVars, funVars, pairVars, searchVars>>

\* POST /api/upload with a file, up to the await of 126
UploadArrives(i) ==
    /\ Free(i)
    /\ Arrives
    /\ handling' = [handling EXCEPT ![i] = [route |-> "upload", session |-> session,
                                            query |-> <<>>]]
    /\ UNCHANGED <<session, clock, cleared, answer,
                   normVars, cleanVars, reqVars, docVars, funVars, pairVars, searchVars>>

\* parseDocument resolves: 128-167; req.session is stored when it was assigned to
UploadAnswers(i) ==
    /\ handling[i].route = "upload"
    /\ \E parseResult \in ParseResults :
          /\ answer' = [route |-> "upload", status |-> UploadStatus(parseResult)]
          /\ session' = IF UploadStatus(parseResult) = 200
                        THEN [handling[i].session EXCEPT
                                  !.uploadedFile = <<UploadedFile(parseResult)>>]
                        ELSE session
    /\ handling' = [handling EXCEPT ![i] = NoRequest]
    /\ UNCHANGED <<clock, cleared, overlaps,
                   normVars, cleanVars, reqVars, docVars, funVars, pairVars, searchVars>>

\* POST /api/search answered before searchInDocument is called (180-192, 226-230)
SearchRefused ==
    /\ \E query \in Queries :
          /\ SearchStatus(query, session) # 0
          /\ answer' = [route |-> "search", status |-> SearchStatus(query, session)]
    /\ UNCHANGED <<session, handling, clock, cleared, overlaps,
                   normVars, cleanVars, reqVars, docVars, funVars, pairVars, searchVars>>

\* POST /api/search up to the await of 200: searchInDocument is called with the
\* trimmed query and the text of req.session
SearchArrives(i) ==
    /\ Free(i)
    /\ clock + Searching < MaxSearches
    /\ Arrives
    /\ \E query \in Queries :
          /\ SearchStatus(query, session) = 0
          /\ handling' = [handling EXCEPT ![i] = [route |-> "search", session |-> session,
                                                  query |-> Trim(query.chars)]]
    /\ UNCHANGED <<session, clock, cleared, answer,
                   normVars, cleanVars, reqVars, docVars, funVars, pairVars, searchVars>>

\* searchInDocument resolves: 202-224, and req.session is stored
SearchAnswers(i) ==
    /\ handling[i].route = "search"
    /\ \E resultCount \in ResultCounts :
          session' = WithEntry(handling[i].session,
                               HistoryEntry(handling[i].query, clock + 1, resultCount))
    /\ clock' = clock + 1
    /\ answer' = [route |-> "search", status |-> 200]
    /\ handling' = [handling EXCEPT ![i] = NoRequest]
    /\ UNCHANGED <<cleared, overlaps,
                   normVars, cleanVars, reqVars, docVars, funVars, pairVars, searchVars>>

\* searchInDocument rejects (1452-1455): 500 at 226-230
SearchFails(i) ==
    /\ handling[i].route = "search"
    /\ answer' = [route |-> "search", status |-> 500]
    /\ handling' = [handling EXCEPT ![i] = NoRequest]
    /\ UNCHANGED <<session, clock, cleared, overlaps,
                   normVars, cleanVars, reqVars, docVars, funVars, pairVars, searchVars>>

\* DELETE /api/session/clear: the memory store deletes the session and reports
\* no error (251-262)
ClearSession ==
    /\ Arrives
    /\ session' = NewSession
    /\ cleared' = clock
    /\ answer' = [route |-> "clear", status |-> 200]
    /\ UNCHANGED <<handling, clock,
                   normVars, cleanVars, reqVars, docVars, funVars, pairVars, searchVars>>

NextSession ==
    \/ UploadRefused
    \/ SearchRefused
    \/ ClearSession
    \/ \E i \in Handlers :
          UploadArrives(i) \/ UploadAnswers(i) \/ SearchArrives(i) \/ SearchAnswers(i)
              \/ SearchFails(i)

SpecSession == InitSession /\ [][NextSession]_vars

(***************************************************************************)
(* Properties of SpecSession.                                              *)
(***************************************************************************)

\* the searches answered with their results since the session was destroyed
Answered == clock - cleared

\* when they were answered: the last 20 of them, the oldest first
RecentSearches ==
    [j \in 1..(IF Answered > MaxHistory THEN MaxHistory ELSE Answered) |->
        clock - (IF Answered > MaxHistory THEN MaxHistory ELSE Answered) + j]

Timestamps(history) == [j \in 1..Len(history) |-> history[j].timestamp]

\* the stored history is that of the searches answered last
HistoryIsRecent == Timestamps(HistoryOf(session)) = RecentSearches

\* searchInDocument is awaited only for a session with a file and a trimmed
\* query that is not empty
CalledForFileAndQuery ==
    \A i \in Handlers :
        handling[i].route = "search" =>
            handling[i].session.uploadedFile # <<>> /\ handling[i].query # <<>>

\* a search answered with 400 or 500 leaves the stored session as it is
RefusedSearchAddsNothing ==
    (SearchRefused \/ \E i \in Handlers : SearchFails(i)) => session' = session

\* the stored history holds 20 entries at most, the oldest first
HistoryLimited ==
    /\ Len(HistoryOf(session)) <= MaxHistory
    /\ \A j \in 1..(Len(HistoryOf(session)) - 1) :
          HistoryOf(session)[j].timestamp < HistoryOf(session)[j + 1].timestamp

\* what of C29 holds whatever the requests do: the limit, the order, the
\* refused searches and the calls of the service
HistoryFrame == []HistoryLimited /\ []CalledForFileAndQuery /\ [][RefusedSearchAddsNothing]_vars

\* while no request arrived during another one, the history is that of the
\* searches answered last
HistoryIsRecentWithoutOverlap == overlaps = 0 => HistoryIsRecent

\* C29: the stored search history holds at most 20 entries, those of the
\* searches answered with results last, in the order they were answered; a
\* search that is refused or fails adds no entry, and searchInDocument is
\* called only for a session with a file and a query that is not empty when
\* trimmed.
C29_HistoryHoldsRecentSearches ==
    []HistoryLimited /\ []HistoryIsRecent /\ []CalledForFileAndQuery
        /\ [][RefusedSearchAddsNothing]_vars

\* two searches were awaited together and both were answered with results:
\* the history holds the second one only
C29_Witness ==
    /\ clock = 2
    /\ cleared = 0
    /\ overlaps = 1
    /\ ~SomeBusy
    /\ answer = [route |-> "search", status |-> 200]
    /\ session.uploadedFile # <<>>
    /\ HistoryOf(session) = <<HistoryEntry(<<"a">>, 2, 1)>>

\* a search was awaited while the session was destroyed: its answer stored the
\* file and the history again
ClearedSessionIsBack ==
    /\ clock = 2
    /\ cleared = 1
    /\ ~SomeBusy
    /\ session.uploadedFile # <<>>
    /\ Timestamps(HistoryOf(session)) = <<1, 2>>

\* the 21st search of a session, no request having arrived during another: its
\* entry is the last of 20 and the first search is gone
HistoryCut ==
    /\ clock = MaxHistory + 1
    /\ cleared = 0
    /\ overlaps = 0
    /\ Len(HistoryOf(session)) = MaxHistory
    /\ HistoryOf(session)[1].timestamp = 2
    /\ HistoryOf(session)[MaxHistory].timestamp = MaxHistory + 1

\* session.uploadedFile, when there is one, holds a text of 1 to 250000
\* characters and its length as size
FileIsValid(sess) ==
    sess.uploadedFile # <<>> =>
        /\ sess.uploadedFile[1].text.length >= 1
        /\ sess.uploadedFile[1].text.length <= MaxTextLength
        /\ sess.uploadedFile[1].size = sess.uploadedFile[1].text.length

FilesAreValid == FileIsValid(session) /\ \A i \in Handlers : FileIsValid(handling[i].session)

\* POST /api/upload is answered with 400
UploadRejected ==
    UploadRefused \/ \E i \in Handlers : UploadAnswers(i) /\ answer'.status = 400

\* a rejected upload leaves the stored session as it is, and a search in the
\* file it holds is not refused
RejectedUploadKeepsSession ==
    UploadRejected =>
        /\ session' = session
        /\ session.uploadedFile # <<>> => SearchStatus(QueryString(<<"a">>), session') = 0

\* C30: session.uploadedFile, when present, holds a non-empty text of at most
\* 250000 characters and its length as size; an upload that is rejected leaves
\* session.uploadedFile and session.searchHistory unchanged, so the document
\* uploaded before can still be searched.
C30_UploadKeepsValidFile == []FilesAreValid /\ [][RejectedUploadKeepsSession]_vars

\* an upload was rejected after a text of 250000 characters was uploaded and
\* searched: the session holds the text and the entry of the search
C30_Witness ==
    /\ answer = [route |-> "upload", status |-> 400]
    /\ ~SomeBusy
    /\ session.uploadedFile = <<[text |-> [length |-> MaxTextLength], size |-> MaxTextLength]>>
    /\ HistoryOf(session) = <<HistoryEntry(<<"a">>, 1, 1)>>

====
